---- MODULE Spec2Model ----
(***************************************************************************)
(* Model of the crawl-and-orchestrate engine of getsitedna.                *)
(*                                                                         *)
(* Part 1 (SpecCrawl): StaticCrawler and DynamicCrawler -- URL discovery,  *)
(*   level-by-level crawling, the Page status machine.                     *)
(*                                                                         *)
(* URLs are strings; a string is modelled as the sequence of its lexical   *)
(* tokens (scheme, host, "/", path segment), so that normalize_url,        *)
(* is_same_domain and str(HttpUrl(..)) are computed on the text as the     *)
(* code computes them.                                                     *)
(***************************************************************************)
EXTENDS Integers, Sequences, FiniteSets, TLC

\* ------------------------------------------------------------------ bounds
MaxDepthBound == 2       \* config.max_depth ranges over 1..MaxDepthBound
MaxPagesBound == 3       \* config.max_pages ranges over 1..MaxPagesBound
MaxConcurrent == 2       \* config.concurrent_requests ranges over 1..MaxConcurrent

\* ------------------------------------------------------------ URL strings
Schemes == {"https://", "http://"}
Hosts   == {"site", "other"}
Segs    == {"a", "b", "c", "."}

\* str(site.base_url): the HttpUrl of the site, printed with its root path
BaseUrl == <<"https://", "site", "/">>

U_root   == <<"https://", "site", "/">>
U_a      == <<"https://", "site", "/", "a">>
U_aslash == <<"https://", "site", "/", "a", "/">>
U_adot   == <<"https://", "site", "/", ".", "/", "a">>
U_b      == <<"https://", "site", "/", "b">>
U_c      == <<"https://", "site", "/", "c">>
U_ext    == <<"https://", "other", "/", "a">>
U_mailto == <<"mailto:x">>
U_bare   == <<"site", "/", "c">>

\* hrefs a fetched document can carry. The static crawler resolves them with
\* urljoin (always absolute afterwards, dot segments of an absolute href kept);
\* the dynamic crawler reads link.href from the browser, which is absolute and
\* already has its dot segments removed.
StaticHrefs  == {U_root, U_a, U_aslash, U_adot, U_b, U_ext, U_mailto}
DynamicHrefs == {U_root, U_a, U_aslash, U_b, U_c, U_ext, U_mailto}
\* <loc> texts of sitemap documents: passed to _add_discovered_url unresolved
SitemapLocs  == {U_root, U_a, U_adot, U_b, U_ext, U_bare}

RECURSIVE RStrip(_)
RStrip(u) ==
  IF u # <<>> /\ u[Len(u)] = "/" THEN RStrip(SubSeq(u, 1, Len(u) - 1)) ELSE u

normalize_url(u) ==
  IF u = <<>> THEN u
  ELSE RStrip(IF Head(u) \in Schemes THEN u ELSE <<"https://">> \o u)

\* validators.url: scheme, host, then "/"-separated path segments
is_valid_url(u) ==
  /\ Len(u) >= 2
  /\ u[1] \in Schemes
  /\ u[2] \in Hosts
  /\ \A i \in 3..Len(u) : IF i % 2 = 1 THEN u[i] = "/" ELSE u[i] \in Segs

\* urlparse(url).netloc
get_domain(u) == IF Len(u) >= 2 /\ u[1] \in Schemes THEN u[2] ELSE ""

is_same_domain(u1, u2) == get_domain(u1) = get_domain(u2)

RECURSIVE RemoveDots(_)
RemoveDots(p) ==
  IF Len(p) < 2 THEN p
  ELSE IF p[2] = "." THEN RemoveDots(SubSeq(p, 3, Len(p)))
       ELSE <<p[1], p[2]>> \o RemoveDots(SubSeq(p, 3, Len(p)))

\* str(HttpUrl(u)) for a valid u: dot segments removed, an empty path printed "/"
HttpUrlStr(u) ==
  LET p == RemoveDots(SubSeq(u, 3, Len(u)))
  IN  <<u[1], u[2]>> \o (IF p = <<>> THEN <<"/">> ELSE p)

\* robots.txt of the modelled site: "Disallow: /b"
Disallowed(u) == Len(u) >= 4 /\ u[3] = "/" /\ u[4] = "b"

VARIABLES
  crawler,      \* "static" | "dynamic": which crawler runs
  config,       \* site.config: max_depth, max_pages, concurrent_requests, respect_robots_txt
  robots_txt,   \* the site serves a robots.txt (with "Disallow: /b") that can be read
  robots_loaded,\* RobotsChecker._loaded
  discovered_urls, \* crawler.discovered_urls (normalized URL strings)
  crawled_urls, \* crawler.crawled_urls (str(page.url) strings)
  objs,         \* every Page object created so far, by creation index
  pages,        \* site.pages: insertion-ordered dict, as a sequence of [url, id]
  phase,        \* position of crawl_site: "init", "discover", "sitemaps", "crawl", "done", "cancelled"
  depth,        \* loop variable of _crawl_by_depth
  levelOpen,    \* the loop body for `depth` has computed uncrawled_pages
  work,         \* uncrawled_pages not yet started, in order (Page object ids)
  pc,           \* _crawl_page position of each started Page object of the level
  call          \* the pending _add_discovered_url call, <<>> when none

crawlVars == <<crawler, config, robots_txt, robots_loaded, discovered_urls, crawled_urls,
               objs, pages, phase, depth, levelOpen, work, pc, call>>

\* ConcurrentProcessor.process_batch (Part 2, SpecBatch)
VARIABLES
  n_items,      \* len(items); item i stands for items[i-1]
  batch_size,   \* the batch_size argument, 0 for None
  max_workers,  \* ConcurrentProcessor.max_workers, the size of its Semaphore
  bpc,          \* position of process_batch: "idle", "workers", "done", "raised"
  wpc,          \* per batch worker: "waiting", "running", "returned", "raised"
  wres,         \* per batch worker: its batch_results list
  raised,       \* the items on which process_func raised
  completed,    \* the nonlocal counter of process_batch
  progress,     \* the calls of progress_callback so far, as <<completed, total>>
  results,      \* the list process_batch returns
  error_stats   \* ConcurrentProcessor.error_handler.error_stats

batchVars == <<n_items, batch_size, max_workers, bpc, wpc, wres, raised,
               completed, progress, results, error_stats>>

\* CircuitBreaker (Part 3, SpecBreaker)
VARIABLES
  failure_threshold, \* CircuitBreaker.failure_threshold
  recovery_timeout,  \* CircuitBreaker.recovery_timeout
  cb_state,          \* CircuitBreaker.state
  failure_count,     \* CircuitBreaker.failure_count
  last_failure_time, \* CircuitBreaker.last_failure_time, -1 for None
  now,               \* time.time()
  inflight,          \* calls of the wrapper that await the wrapped function
  invoked,           \* how often the wrapped function was invoked
  failures,          \* how often the wrapped function raised expected_exception
  rejected,          \* how often the wrapper raised "Circuit breaker is OPEN"
  returned,          \* how often the wrapped function returned a result
  half_opened        \* how often the breaker moved from OPEN to HALF_OPEN

cbVars == <<failure_threshold, recovery_timeout, cb_state, failure_count,
            last_failure_time, now, inflight, invoked, failures, rejected,
            returned, half_opened>>

\* calculate_delay (Part 4, SpecDelay)
VARIABLES
  cd_attempt,  \* the attempt argument
  cd_config,   \* the RetryConfig argument
  cd_result    \* what the call did: <<>> before it, then one outcome record

delayVars == <<cd_attempt, cd_config, cd_result>>

\* ErrorHandler (Part 5, SpecHandler)
VARIABLES
  eh_input,  \* the exceptions that keep arriving, one after the other in turn
  eh_stats,  \* ErrorHandler.error_stats
  eh_log,    \* the exceptions handle_error was called with, in call order
  eh_last,   \* the outcome of the last handle_error call, <<>> before the first
  sc_last    \* the last should_continue call and its result, <<>> if none

ehVars == <<eh_input, eh_stats, eh_log, eh_last, sc_last>>

\* retry_on_error (Part 6, SpecRetry)
VARIABLES
  rt_config,   \* max_attempts, the exceptions argument, whether a handler is attached
  rt_stats,    \* the error_stats of the attached ErrorHandler
  rt_attempt,  \* the loop variable attempt
  rt_pc,       \* "call": the function is invoked next, "sleep", "done"
  rt_invoked,  \* how often the wrapped function was invoked
  rt_sleeps,   \* how often the wrapper went to sleep
  rt_raised,   \* the exceptions the wrapped function raised, in order
  rt_stopped,  \* should_continue has returned False
  rt_outcome   \* <<>>, or what the wrapper did: returned, or raised an exception

retryVars == <<rt_config, rt_stats, rt_attempt, rt_pc, rt_invoked, rt_sleeps,
               rt_raised, rt_stopped, rt_outcome>>

\* SafeExecutor (Part 7, SpecSafe)
VARIABLES
  se_stats,  \* the error_stats of the executor's ErrorHandler
  se_calls,  \* how many safe_execute / safe_execute_sync calls were made
  se_last    \* <<>>, or the last call: what func did and what the caller got

safeVars == <<se_stats, se_calls, se_last>>

\* SiteAnalyzer.analyze_site (Part 8, SpecAnalyzer)
VARIABLES
  an_cfg,      \* download_assets, generate_markdown of the SiteAnalyzer
  an_pc,       \* "start", the phase that runs or is started next, "done"
  an_running,  \* the phase an_pc has been started and has not finished
  an_attempt,  \* the attempt of retry_on_error around _crawl_site
  an_log,      \* the phases started, in order
  an_failed,   \* the phases whose function raised, with the exception
  an_stats,    \* the error_stats of the analyzer's ErrorHandler
  an_site,     \* the Site object
  an_now,      \* the clock read by datetime.now()
  an_marks,    \* how often mark_analysis_complete was called on the Site
  an_outputs,  \* how often _generate_outputs was invoked
  an_result    \* <<>>, or what analyze_site did: returned the Site or raised

anVars == <<an_cfg, an_pc, an_running, an_attempt, an_log, an_failed, an_stats,
            an_site, an_now, an_marks, an_outputs, an_result>>

\* RateLimiter behind AsyncHTTPSession (Part 10, SpecLimiter)
VARIABLES
  rl_delay,     \* RateLimiter.delay
  rl_limit,     \* AsyncHTTPSession.concurrent_limit, the size of the semaphore
  rl_last,      \* RateLimiter.last_request_time
  rl_now,       \* time.time()
  rl_pc,        \* per request: "new", "sleeping", "request", "done"
  rl_wake,      \* per sleeping request: the time its asyncio.sleep ends
  rl_released   \* the times at which wait() returned, in order

limiterVars == <<rl_delay, rl_limit, rl_last, rl_now, rl_pc, rl_wake, rl_released>>

\* StaticCrawler._discover_initial_urls and _parse_sitemap (Part 11, SpecSitemap)
VARIABLES
  sm_docs,     \* the site: per sitemap URL, status 200 or not, <url> and <sitemap> locs
  sm_roots,    \* the sitemap URLs of _discover_sitemaps not yet parsed
  sm_stack,    \* the active _parse_sitemap calls, innermost last
  sm_fetches,  \* per sitemap URL, how often it was fetched
  sm_offered,  \* the leaf URLs passed to _add_discovered_url, with their depth
  sm_phase     \* "discover", then "crawl" once _discover_initial_urls has returned

sitemapVars == <<sm_docs, sm_roots, sm_stack, sm_fetches, sm_offered, sm_phase>>

nonCrawlVars == <<batchVars, cbVars, delayVars, ehVars, retryVars, safeVars, anVars, limiterVars, sitemapVars>>

nonBatchVars == <<crawlVars, cbVars, delayVars, ehVars, retryVars, safeVars, anVars, limiterVars, sitemapVars>>

nonBreakerVars == <<crawlVars, batchVars, delayVars, ehVars, retryVars, safeVars, anVars, limiterVars, sitemapVars>>

nonDelayVars == <<crawlVars, batchVars, cbVars, ehVars, retryVars, safeVars, anVars, limiterVars, sitemapVars>>

nonHandlerVars == <<crawlVars, batchVars, cbVars, delayVars, retryVars, safeVars, anVars, limiterVars, sitemapVars>>

nonRetryVars == <<crawlVars, batchVars, cbVars, delayVars, ehVars, safeVars, anVars, limiterVars, sitemapVars>>

nonSafeVars == <<crawlVars, batchVars, cbVars, delayVars, ehVars, retryVars, anVars, limiterVars, sitemapVars>>

nonAnalyzerVars == <<crawlVars, batchVars, cbVars, delayVars, ehVars, retryVars, safeVars, limiterVars, sitemapVars>>

nonLimiterVars == <<crawlVars, batchVars, cbVars, delayVars, ehVars, retryVars, safeVars, anVars, sitemapVars>>

nonSitemapVars == <<crawlVars, batchVars, cbVars, delayVars, ehVars, retryVars, safeVars, anVars, limiterVars>>

vars == <<crawlVars, batchVars, cbVars, delayVars, ehVars, retryVars, safeVars, anVars, limiterVars, sitemapVars>>

Static == crawler = "static"

\* the parts that a specification does not exercise stay as constructed
BatchIdle ==
  /\ n_items = 0 /\ batch_size = 0 /\ max_workers = 1 /\ bpc = "idle"
  /\ wpc = <<>> /\ wres = <<>> /\ raised = {} /\ completed = 0
  /\ progress = <<>> /\ results = <<>>
  /\ error_stats = [total_errors |-> 0, by_category |-> [c \in {} |-> 0],
                    by_severity |-> [c \in {} |-> 0], recent_errors |-> <<>>]

BreakerIdle ==
  /\ failure_threshold = 1 /\ recovery_timeout = 1 /\ cb_state = "CLOSED"
  /\ failure_count = 0 /\ last_failure_time = -1 /\ now = 0
  /\ inflight = 0 /\ invoked = 0 /\ failures = 0 /\ rejected = 0
  /\ returned = 0 /\ half_opened = 0

DelayIdle ==
  /\ cd_attempt = 0
  /\ cd_config = [base_delay |-> 1, max_delay |-> 60, exponential_base |-> 2,
                  jitter |-> TRUE]
  /\ cd_result = <<>>

FreshStats ==
  [total_errors |-> 0, by_category |-> [c \in {} |-> 0],
   by_severity |-> [c \in {} |-> 0], recent_errors |-> <<>>]

HandlerIdle ==
  /\ eh_input = <<>>
  /\ eh_stats = FreshStats
  /\ eh_log = <<>>
  /\ eh_last = <<>>
  /\ sc_last = <<>>

RetryIdle ==
  /\ rt_config = [max_attempts |-> 1, exceptions |-> "Exception",
                  handler |-> FALSE]
  /\ rt_stats = FreshStats
  /\ rt_attempt = 0
  /\ rt_pc = "call"
  /\ rt_invoked = 0
  /\ rt_sleeps = 0
  /\ rt_raised = <<>>
  /\ rt_stopped = FALSE
  /\ rt_outcome = <<>>

SafeIdle ==
  /\ se_stats = FreshStats
  /\ se_calls = 0
  /\ se_last = <<>>

NotCompleted == -1

\* Site(base_url=url) constructed at time t
NewSite(t) ==
  [bound |-> TRUE, analysis_started_at |-> t,
   analysis_completed_at |-> NotCompleted,
   crawled |-> 0, analyzed |-> 0, warnings |-> {}, errors |-> {},
   stats |-> [total_pages_crawled |-> 0, total_pages_analyzed |-> 0,
              analysis_duration_seconds |-> NotCompleted]]

\* before `site = self._initialize_site(..)` the name site is not bound
NoSite == [NewSite(0) EXCEPT !.bound = FALSE]

AnalyzerIdle ==
  /\ an_cfg = [download_assets |-> FALSE, generate_markdown |-> FALSE]
  /\ an_pc = "start"
  /\ an_running = FALSE
  /\ an_attempt = 0
  /\ an_log = <<>>
  /\ an_failed = {}
  /\ an_stats = FreshStats
  /\ an_site = NoSite
  /\ an_now = 0
  /\ an_marks = 0
  /\ an_outputs = 0
  /\ an_result = <<>>

LimiterIdle ==
  /\ rl_delay = 1
  /\ rl_limit = 1
  /\ rl_last = 0
  /\ rl_now = 1
  /\ rl_pc = <<>>
  /\ rl_wake = <<>>
  /\ rl_released = <<>>

SitemapIdle ==
  /\ sm_docs = <<>>
  /\ sm_roots = <<>>
  /\ sm_stack = <<>>
  /\ sm_fetches = <<>>
  /\ sm_offered = {}
  /\ sm_phase = "discover"

CrawlIdle ==
  /\ crawler = "static"
  /\ config = [max_depth |-> 1, max_pages |-> 1, concurrent_requests |-> 1,
               respect_robots_txt |-> FALSE]
  /\ robots_txt = TRUE /\ robots_loaded = FALSE
  /\ discovered_urls = {} /\ crawled_urls = {} /\ objs = <<>> /\ pages = <<>>
  /\ phase = "init" /\ depth = 0 /\ levelOpen = FALSE /\ work = <<>>
  /\ pc = <<>> /\ call = <<>>

\* ------------------------------------------------------------ Page, Site
StatusCodes == {200, 404}

\* The fields of a Page that the crawl reads or that record how the crawl of
\* the page went. The collected content (title, internal and external links,
\* assets, metadata) is read by no step of the crawl and is left out.
NewPage(n, d, par) ==
  [url |-> HttpUrlStr(n), depth |-> d, parent_url |-> par, status |-> "pending",
   status_code |-> 0, errors |-> {}, warnings |-> {}]

mark_crawled_always_completed(pg, code) ==
  [pg EXCEPT !.status = "completed", !.status_code = code]

\* Page.mark_crawled
mark_crawled(pg, code) ==
  [pg EXCEPT !.status = IF 200 <= code /\ code < 300 THEN "completed" ELSE "failed",
             !.status_code = code]

\* Page.is_successful
is_successful(pg) ==
  pg.status = "completed" /\ pg.status_code # 0
    /\ 200 <= pg.status_code /\ pg.status_code < 300

add_error(pg, e) == [pg EXCEPT !.errors = @ \cup {e}]
add_warning(pg, w) == [pg EXCEPT !.warnings = @ \cup {w}]

\* Site.has_page
has_page(u) == \E i \in 1..Len(pages) : pages[i].url = u

\* Site.add_page: self.pages[str(page.url)] = page, for the Page object with index id
add_page(key, id) ==
  IF \E i \in 1..Len(pages) : pages[i].url = key
  THEN [i \in 1..Len(pages) |->
          IF pages[i].url = key THEN [url |-> key, id |-> id] ELSE pages[i]]
  ELSE Append(pages, [url |-> key, id |-> id])

\* the Page objects site.pages holds
SitePageIds == {pages[i].id : i \in 1..Len(pages)}

\* Site.get_pages_by_depth(d), filtered to status PENDING, as object ids in dict order
Uncrawled(d) ==
  LET sel == SelectSeq(pages, LAMBDA e : objs[e.id].depth = d
                                          /\ objs[e.id].status = "pending")
  IN  [i \in 1..Len(sel) |-> sel[i].id]

\* RobotsChecker.can_fetch
can_fetch(u) == IF ~robots_loaded THEN TRUE ELSE ~Disallowed(u)

\* ------------------------------------------------- _add_discovered_url
AlreadyDiscovered_rediscover(n) == FALSE
AlreadyDiscovered(n) == n \in discovered_urls

DepthExceeded_offbyone(d) == d > config.max_depth + 1
DepthExceeded(d) == d > config.max_depth

PageLimitReached_offbyone == Cardinality(discovered_urls) > config.max_pages
PageLimitReached == Cardinality(discovered_urls) >= config.max_pages

\* static_crawler.py:144; the dynamic crawler has no robots check
RobotsBlocked(n) ==
  Static /\ config.respect_robots_txt /\ ~can_fetch(n)

\* dynamic_crawler.py:115 guards add_page with has_page; static_crawler.py:157 does not
CreatesPage(n) == Static \/ ~has_page(n)

Admits(n, d) ==
  /\ ~AlreadyDiscovered(n)
  /\ is_valid_url(n)
  /\ is_same_domain(n, BaseUrl)
  /\ ~DepthExceeded(d)
  /\ ~PageLimitReached
  /\ ~RobotsBlocked(n)

AddDiscoveredUrl ==
  /\ call # <<>>
  /\ LET c == call[1]
         n == normalize_url(c.url)
     IN  IF Admits(n, c.depth)
         THEN /\ discovered_urls' = discovered_urls \cup {n}
              /\ IF CreatesPage(n)
                 THEN /\ objs' = Append(objs, NewPage(n, c.depth, c.parent_url))
                      /\ pages' = add_page(HttpUrlStr(n), Len(objs) + 1)
                 ELSE UNCHANGED <<objs, pages>>
         ELSE UNCHANGED <<discovered_urls, objs, pages>>
  /\ call' = <<>>
  /\ UNCHANGED <<crawler, config, robots_txt, robots_loaded, crawled_urls, phase, depth,
                 levelOpen, work, pc>>
  /\ UNCHANGED nonCrawlVars

\* ------------------------------------------------------------ crawl_site
\* static_crawler.py:37-44: robots.txt is loaded when it is to be respected;
\* DynamicCrawler.crawl_site launches the browser and loads no robots.txt
CrawlSite ==
  /\ phase = "init"
  /\ phase' = "discover"
  /\ robots_loaded' = (Static /\ config.respect_robots_txt /\ robots_txt)
  /\ UNCHANGED <<crawler, config, robots_txt, discovered_urls, crawled_urls,
                 objs, pages, depth, levelOpen, work, pc, call>>
  /\ UNCHANGED nonCrawlVars

\* ------------------------------------------------- _discover_initial_urls
DiscoverInitialUrls ==
  /\ phase = "discover"
  /\ call' = <<[url |-> BaseUrl, depth |-> 0, parent_url |-> <<>>]>>
  /\ phase' = IF crawler = "static" THEN "sitemaps" ELSE "crawl"
  /\ UNCHANGED <<crawler, config, robots_txt, robots_loaded, discovered_urls, crawled_urls,
                 objs, pages, depth, levelOpen, work, pc>>
  /\ UNCHANGED nonCrawlVars

\* _parse_sitemap: one <url><loc> element of a sitemap document
SitemapLoc(u) ==
  /\ phase = "sitemaps"
  /\ call = <<>>
  /\ call' = <<[url |-> u, depth |-> 1, parent_url |-> <<>>]>>
  /\ UNCHANGED <<crawler, config, robots_txt, robots_loaded, discovered_urls, crawled_urls,
                 objs, pages, phase, depth, levelOpen, work, pc>>
  /\ UNCHANGED nonCrawlVars

SitemapsDone ==
  /\ phase = "sitemaps"
  /\ call = <<>>
  /\ phase' = "crawl"
  /\ UNCHANGED <<crawler, config, robots_txt, robots_loaded, discovered_urls, crawled_urls,
                 objs, pages, depth, levelOpen, work, pc, call>>
  /\ UNCHANGED nonCrawlVars

\* ------------------------------------------------------ _crawl_by_depth
\* started _crawl_page calls that have not returned
InFlight == {t \in DOMAIN pc : pc[t] # "done"}

\* code that runs without an await: a pending _add_discovered_url call, or the
\* loop over the extracted links; nothing else runs in between
SyncBusy == call # <<>> \/ \E t \in DOMAIN pc : pc[t] = "links"

\* the static crawler awaits each _crawl_page; the dynamic one holds a Semaphore
Limit == IF Static THEN 1 ELSE config.concurrent_requests

\* `for depth in range(max_depth + 1)`: the next iteration, or the end of the loop
Advance ==
  IF depth = config.max_depth
  THEN phase' = "done" /\ depth' = depth
  ELSE phase' = phase /\ depth' = depth + 1

\* lines 161-166 (static), 125-141 (dynamic): the pages to crawl at this depth
LevelStart ==
  /\ phase = "crawl"
  /\ call = <<>>
  /\ ~levelOpen
  /\ LET unc == Uncrawled(depth)
     IN  IF unc = <<>>
         THEN /\ Advance
              /\ UNCHANGED <<levelOpen, work>>
         ELSE /\ levelOpen' = TRUE
              /\ work' = IF ~Static /\ Cardinality(crawled_urls) >= config.max_pages
                         THEN <<>> ELSE unc
              /\ UNCHANGED <<phase, depth>>
  /\ pc' = <<>>
  /\ UNCHANGED <<crawler, config, robots_txt, robots_loaded, discovered_urls, crawled_urls,
                 objs, pages, call>>
  /\ UNCHANGED nonCrawlVars

LevelSettled_nowait == work = <<>>
\* the gather / the end of the for loop over uncrawled_pages
LevelSettled == work = <<>> /\ InFlight = {}

LevelEnd ==
  /\ phase = "crawl"
  /\ levelOpen
  /\ ~SyncBusy
  /\ LevelSettled
  /\ levelOpen' = FALSE
  /\ Advance
  /\ pc' = <<>>
  /\ UNCHANGED <<crawler, config, robots_txt, robots_loaded, discovered_urls, crawled_urls,
                 objs, pages, work, call>>
  /\ UNCHANGED nonCrawlVars

\* ----------------------------------------------------------- _crawl_page
\* the call of _crawl_page on the next page of the level, up to its first await
StartCrawl ==
  /\ phase = "crawl"
  /\ levelOpen
  /\ work # <<>>
  /\ ~SyncBusy
  /\ Cardinality(InFlight) < Limit
  /\ LET p == Head(work)
     IN  IF Static /\ Cardinality(crawled_urls) >= config.max_pages
         THEN /\ work' = <<>>
              /\ UNCHANGED <<objs, pc>>
         ELSE /\ work' = Tail(work)
              /\ IF objs[p].url \in crawled_urls
                 THEN /\ pc' = (p :> "done") @@ pc
                      /\ UNCHANGED objs
                 ELSE /\ pc' = (p :> "fetch") @@ pc
                      /\ objs' = [objs EXCEPT ![p].status = "crawling"]
  /\ UNCHANGED <<crawler, config, robots_txt, robots_loaded, discovered_urls, crawled_urls,
                 pages, phase, depth, levelOpen, call>>
  /\ UNCHANGED nonCrawlVars

\* the except clause of _crawl_page
CrawlFailed(pg) == add_error([pg EXCEPT !.status = "failed"], "crawl failed")

\* session.get / new_page / goto raises
FetchRaises(t) ==
  /\ t \in DOMAIN pc /\ pc[t] = "fetch"
  /\ ~SyncBusy
  /\ objs' = [objs EXCEPT ![t] = CrawlFailed(@)]
  /\ pc' = [pc EXCEPT ![t] = "done"]
  /\ UNCHANGED <<crawler, config, robots_txt, robots_loaded, discovered_urls, crawled_urls,
                 pages, phase, depth, levelOpen, work, call>>
  /\ UNCHANGED nonCrawlVars

\* dynamic_crawler.py:176-179: goto returned no response
FetchNoResponse(t) ==
  /\ ~Static
  /\ t \in DOMAIN pc /\ pc[t] = "fetch"
  /\ ~SyncBusy
  /\ objs' = [objs EXCEPT ![t] =
                [add_error(@, "Failed to load page") EXCEPT !.status = "failed"]]
  /\ pc' = [pc EXCEPT ![t] = "done"]
  /\ UNCHANGED <<crawler, config, robots_txt, robots_loaded, discovered_urls, crawled_urls,
                 pages, phase, depth, levelOpen, work, call>>
  /\ UNCHANGED nonCrawlVars

\* a response arrived: mark_crawled, then the is_successful test
FetchResponse(t, code) ==
  /\ t \in DOMAIN pc /\ pc[t] = "fetch"
  /\ ~SyncBusy
  /\ LET pg == mark_crawled(objs[t], code)
     IN  IF ~is_successful(pg)
         THEN /\ objs' = [objs EXCEPT ![t] = add_error(pg, "HTTP")]
              /\ pc' = [pc EXCEPT ![t] = "done"]
         ELSE /\ objs' = [objs EXCEPT ![t] = pg]
              /\ pc' = [pc EXCEPT ![t] = "loaded"]
  /\ UNCHANGED <<crawler, config, robots_txt, robots_loaded, discovered_urls, crawled_urls,
                 pages, phase, depth, levelOpen, work, call>>
  /\ UNCHANGED nonCrawlVars

\* parsing / _extract_dynamic_content raises after the response was recorded
ContentRaises(t) ==
  /\ t \in DOMAIN pc /\ pc[t] = "loaded"
  /\ ~SyncBusy
  /\ objs' = [objs EXCEPT ![t] = CrawlFailed(@)]
  /\ pc' = [pc EXCEPT ![t] = "done"]
  /\ UNCHANGED <<crawler, config, robots_txt, robots_loaded, discovered_urls, crawled_urls,
                 pages, phase, depth, levelOpen, work, call>>
  /\ UNCHANGED nonCrawlVars

\* the content is read and the list of <a href> elements obtained
ContentOk(t) ==
  /\ t \in DOMAIN pc /\ pc[t] = "loaded"
  /\ ~SyncBusy
  /\ pc' = [pc EXCEPT ![t] = "links"]
  /\ UNCHANGED <<crawler, config, robots_txt, robots_loaded, discovered_urls, crawled_urls,
                 objs, pages, phase, depth, levelOpen, work, call>>
  /\ UNCHANGED nonCrawlVars

Hrefs == IF Static THEN StaticHrefs ELSE DynamicHrefs

\* one iteration of the loop of _extract_links / _extract_dynamic_links
ExtractLink(t, h) ==
  /\ t \in DOMAIN pc /\ pc[t] = "links"
  /\ call = <<>>
  /\ h \in Hrefs
  /\ LET n == normalize_url(h)
     IN  IF ~is_valid_url(n)
         THEN UNCHANGED <<objs, call>>
         ELSE IF is_same_domain(n, BaseUrl)
         THEN /\ UNCHANGED objs
              /\ call' = IF n \notin discovered_urls
                         THEN <<[url |-> n, depth |-> objs[t].depth + 1,
                                 parent_url |-> objs[t].url]>>
                         ELSE <<>>
         ELSE \* page.add_external_link(..): the link is not offered for crawling
              UNCHANGED <<objs, call>>
  /\ UNCHANGED <<crawler, config, robots_txt, robots_loaded, discovered_urls, crawled_urls,
                 pages, phase, depth, levelOpen, work, pc>>
  /\ UNCHANGED nonCrawlVars

\* HttpUrl(..) rejects a link inside the loop: the static crawler's except clause
\* fails the page; _extract_dynamic_links catches it and records a warning
LinkRaises(t) ==
  /\ t \in DOMAIN pc /\ pc[t] = "links"
  /\ call = <<>>
  /\ IF Static
     THEN /\ objs' = [objs EXCEPT ![t] = CrawlFailed(@)]
          /\ pc' = [pc EXCEPT ![t] = "done"]
     ELSE /\ objs' = [objs EXCEPT ![t] = add_warning(@, "links")]
          /\ pc' = [pc EXCEPT ![t] = "assets"]
  /\ UNCHANGED <<crawler, config, robots_txt, robots_loaded, discovered_urls, crawled_urls,
                 pages, phase, depth, levelOpen, work, call>>
  /\ UNCHANGED nonCrawlVars

\* the loop over the links ends; the static crawler extracts the assets without
\* an await and records the URL as crawled
EndLinks(t) ==
  /\ t \in DOMAIN pc /\ pc[t] = "links"
  /\ call = <<>>
  /\ IF Static
     THEN /\ crawled_urls' = crawled_urls \cup {objs[t].url}
          /\ pc' = [pc EXCEPT ![t] = "done"]
     ELSE /\ pc' = [pc EXCEPT ![t] = "assets"]
          /\ UNCHANGED crawled_urls
  /\ UNCHANGED <<crawler, config, robots_txt, robots_loaded, discovered_urls,
                 objs, pages, phase, depth, levelOpen, work, call>>
  /\ UNCHANGED nonCrawlVars

\* dynamic_crawler.py:198-204: assets read, URL recorded as crawled
AssetsDone(t) ==
  /\ ~Static
  /\ t \in DOMAIN pc /\ pc[t] = "assets"
  /\ ~SyncBusy
  /\ crawled_urls' = crawled_urls \cup {objs[t].url}
  /\ pc' = [pc EXCEPT ![t] = "done"]
  /\ UNCHANGED <<crawler, config, robots_txt, robots_loaded, discovered_urls,
                 objs, pages, phase, depth, levelOpen, work, call>>
  /\ UNCHANGED nonCrawlVars

\* ------------------------------------------------------------- crawl spec
Configs ==
  [max_depth : 1..MaxDepthBound, max_pages : 1..MaxPagesBound,
   concurrent_requests : 1..MaxConcurrent, respect_robots_txt : BOOLEAN]

InitCrawl ==
  /\ BatchIdle
  /\ BreakerIdle
  /\ DelayIdle
  /\ HandlerIdle
  /\ RetryIdle
  /\ SafeIdle
  /\ AnalyzerIdle
  /\ LimiterIdle
  /\ SitemapIdle
  /\ crawler \in {"static", "dynamic"}
  /\ config \in Configs
  \* the static crawler does not read concurrent_requests
  /\ Static => config.concurrent_requests = 1
  \* whether robots.txt can be read matters only to the crawler that loads it,
  \* and only when it is to be respected
  /\ robots_txt \in IF Static /\ config.respect_robots_txt THEN BOOLEAN ELSE {TRUE}
  /\ robots_loaded = FALSE
  /\ discovered_urls = {}
  /\ crawled_urls = {}
  /\ objs = <<>>
  /\ pages = <<>>
  /\ phase = "init"
  /\ depth = 0
  /\ levelOpen = FALSE
  /\ work = <<>>
  /\ pc = <<>>
  /\ call = <<>>

NextCrawl ==
  \/ CrawlSite
  \/ DiscoverInitialUrls
  \/ \E u \in SitemapLocs : SitemapLoc(u)
  \/ SitemapsDone
  \/ AddDiscoveredUrl
  \/ LevelStart
  \/ StartCrawl
  \/ \E t \in DOMAIN pc : FetchRaises(t)
  \/ \E t \in DOMAIN pc : FetchNoResponse(t)
  \/ \E t \in DOMAIN pc, code \in StatusCodes : FetchResponse(t, code)
  \/ \E t \in DOMAIN pc : ContentRaises(t)
  \/ \E t \in DOMAIN pc : ContentOk(t)
  \/ \E t \in DOMAIN pc, h \in Hrefs : ExtractLink(t, h)
  \/ \E t \in DOMAIN pc : LinkRaises(t)
  \/ \E t \in DOMAIN pc : EndLinks(t)
  \/ \E t \in DOMAIN pc : AssetsDone(t)
  \/ LevelEnd

SpecCrawl == InitCrawl /\ [][NextCrawl]_vars

\* ------------------------------------------------------------ crawl claims
PageIds == 1..Len(objs)

\* an _add_discovered_url call is pending
Calling == call # <<>>

\* C1: every Page created during a crawl has depth <= config.max_depth
C1_DepthInvariant == \A i \in PageIds : objs[i].depth <= config.max_depth

\* a link found on a page at depth max_depth is offered at depth max_depth + 1
C1_Witness ==
  /\ Calling
  /\ call[1].depth = config.max_depth + 1
  /\ Admits(normalize_url(call[1].url), config.max_depth)
  /\ \E i \in PageIds : objs[i].depth = config.max_depth

\* C2: len(site.pages) <= config.max_pages in every state of the crawl
C2_PageBudget == Len(pages) <= config.max_pages

\* the budget is used up and one more admissible URL is offered, with two
\* fetches of the level in flight
C2_Witness ==
  /\ Calling
  /\ Len(pages) = config.max_pages
  /\ ~AlreadyDiscovered(normalize_url(call[1].url))
  /\ is_valid_url(normalize_url(call[1].url))
  /\ is_same_domain(normalize_url(call[1].url), BaseUrl)
  /\ ~DepthExceeded(call[1].depth)
  /\ Cardinality(InFlight) = 2

\* the Page objects of the level that were dispatched and have not settled
Unsettled ==
  {i \in PageIds : \/ objs[i].status = "crawling"
                   \/ i \in InFlight
                   \/ ~Static /\ \E k \in 1..Len(work) : work[k] = i}

\* C3: while a dispatched Page of depth d has not settled, no Page of depth
\* d + 1 has had its fetch started
C3_BFSOrdering ==
  \A a \in Unsettled : \A b \in PageIds :
     objs[b].depth = objs[a].depth + 1 => objs[b].status = "pending"

\* a depth-2 fetch is running, after the fetches of depth 1 have settled
C3_Witness ==
  /\ \E b \in PageIds : objs[b].depth = 2 /\ objs[b].status = "crawling"
  /\ \E a \in PageIds : /\ objs[a].depth = 1 /\ objs[a].status = "completed"
                        /\ objs[a].url \in crawled_urls

\* the step is the execution of the pending _add_discovered_url call
DiscoverStep == call # <<>> /\ call' = <<>>

\* the step inserted a new pending Page into site.pages
PageInserted ==
  /\ Len(objs') = Len(objs) + 1
  /\ objs'[Len(objs')].status = "pending"
  /\ \E i \in 1..Len(pages') : pages'[i].id = Len(objs')

\* the admission condition as the contract states it, robots.txt included
ContractAdmits(c) ==
  LET n == normalize_url(c.url)
  IN  /\ n \notin discovered_urls
      /\ is_valid_url(n)
      /\ is_same_domain(n, BaseUrl)
      /\ c.depth <= config.max_depth
      /\ Cardinality(discovered_urls) < config.max_pages
      /\ (config.respect_robots_txt /\ robots_txt) => ~Disallowed(n)

\* C4: _add_discovered_url inserts a new pending Page if and only if the URL is
\* unknown, valid, on the site's domain, within max_depth, within the max_pages
\* budget and, when robots.txt is respected, permitted by it -- in both crawlers
C4_AdmissionContract == [][DiscoverStep => (PageInserted <=> ContractAdmits(call[1]))]_vars

\* C5: a call of _add_discovered_url with a URL that is already in the discovered
\* set changes neither site.pages, nor the discovered set, nor any Page
C5_IdempotentDiscovery ==
  [][(DiscoverStep /\ normalize_url(call[1].url) \in discovered_urls)
       => (pages' = pages /\ discovered_urls' = discovered_urls /\ objs' = objs)]_vars

\* a known URL is offered again, at another depth than its Page has
C5_Witness ==
  /\ Calling
  /\ normalize_url(call[1].url) \in discovered_urls
  /\ \E i \in PageIds : /\ objs[i].url = HttpUrlStr(normalize_url(call[1].url))
                        /\ objs[i].depth # call[1].depth

\* the step is a fetch of t that fails: an exception, no response, or a non-2xx status
FetchFailure(t) == t \in DOMAIN pc /\ pc[t] = "fetch" /\ pc'[t] = "done"

\* C6: a failed fetch leaves its Page in status failed with an error recorded, and
\* does not stop the crawl: when the crawl is over no Page of site.pages is left
\* pending, unless its URL was already crawled successfully
C6_FailureIsolation ==
  /\ [][\A t \in PageIds : FetchFailure(t) =>
           objs'[t].status = "failed" /\ objs'[t].errors # {}]_vars
  /\ [](\A i \in PageIds : objs[i].status = "failed" => objs[i].errors # {})
  /\ [](phase = "done" =>
          \A i \in SitePageIds :
             objs[i].status = "pending" => objs[i].url \in crawled_urls)

\* the crawl is over; at one depth a Page failed on a non-2xx response and another completed
C6_Witness ==
  /\ phase = "done"
  /\ \E a, b \in SitePageIds :
        /\ objs[a].depth = objs[b].depth
        /\ objs[a].status = "failed" /\ objs[a].status_code = 404
        /\ objs[b].status = "completed"

\* C7: a Page that is completed or failed keeps that status for ever, and no
\* Page goes back to pending or crawling
C7_StatusForwardOnly ==
  [][\A i \in PageIds :
       /\ objs[i].status \in {"completed", "failed"} => objs'[i].status = objs[i].status
       /\ objs[i].status = "crawling" => objs'[i].status # "pending"]_vars

\* ===================================================================
\* Part 2. ErrorHandler.handle_error and ConcurrentProcessor.process_batch
\* ===================================================================

MaxItems == 4
MaxBatchSize == 2
MaxWorkers == 2

RecentErrorsLimit == 50

\* An exception is a record: its Python type and, for an AnalysisError, the
\* category and severity it carries.
BuiltinError(t) == [type |-> t, category |-> "", severity |-> ""]

AnalysisError(c, s) == [type |-> "AnalysisError", category |-> c, severity |-> s]

IsAnalysisError(e) == e.type = "AnalysisError"

RequestsExceptions == {"RequestException", "ConnectionError"}

TimeoutExceptions == {"TimeoutError", "PlaywrightTimeoutError"}

FileSystemExceptions == {"FileNotFoundError", "PermissionError", "OSError"}

\* NetworkError.__init__(message, status_code, url) takes no context argument,
\* so the call NetworkError(..., context=context) of the network branch raises
\* TypeError instead of returning a classification.
ClassifyRaises(e) == e.type \in RequestsExceptions

\* The remaining branches. The ValidationError branch tests for the module's
\* own ValidationError, a subclass of AnalysisError, which never reaches
\* _classify_error.
_classify_error(e) ==
  IF e.type \in TimeoutExceptions THEN AnalysisError("timeout", "medium")
  ELSE IF e.type \in FileSystemExceptions THEN AnalysisError("file_system", "high")
  ELSE AnalysisError("unknown", "medium")

HandleErrorRaises(e) == ~IsAnalysisError(e) /\ ClassifyRaises(e)

DictGet(d, k) == IF k \in DOMAIN d THEN d[k] ELSE 0

DictPut(d, k, v) == [x \in (DOMAIN d) \cup {k} |-> IF x = k THEN v ELSE d[x]]

LastN(q, k) == IF Len(q) > k THEN SubSeq(q, Len(q) - k + 1, Len(q)) ELSE q

_update_stats(st, ae) ==
  [total_errors |-> st.total_errors + 1,
   by_category |-> DictPut(st.by_category, ae.category,
                           DictGet(st.by_category, ae.category) + 1),
   by_severity |-> DictPut(st.by_severity, ae.severity,
                           DictGet(st.by_severity, ae.severity) + 1),
   recent_errors |-> LastN(Append(st.recent_errors,
                                  [category |-> ae.category,
                                   severity |-> ae.severity]),
                           RecentErrorsLimit)]

\* the statistics after a handle_error(e) that returns
handle_error(st, e) ==
  _update_stats(st, IF IsAnalysisError(e) THEN e ELSE _classify_error(e))

\* what process_func raises in this model
RaisedByFunc ==
  {BuiltinError("RequestException"), BuiltinError("TimeoutError"),
   BuiltinError("ValueError"), AnalysisError("parsing", "low")}

\* the value None, and the value f(items[i]), in a result list
None == 0

FOf(i) == i

Max2(a, b) == IF a >= b THEN a ELSE b

Min2(a, b) == IF a <= b THEN a ELSE b

EffBatchSize ==
  IF batch_size = 0 THEN Max2(1, n_items \div max_workers) ELSE batch_size

NumBatches == (n_items + EffBatchSize - 1) \div EffBatchSize

\* items[i:i + batch_size] for the k-th batch, as item numbers
BatchItems(k) ==
  [j \in 1..(Min2(k * EffBatchSize, n_items) - (k - 1) * EffBatchSize)
     |-> (k - 1) * EffBatchSize + j]

Running == {k \in DOMAIN wpc : wpc[k] = "running"}

ProcessBatchStart ==
  /\ bpc = "idle"
  /\ bpc' = "workers"
  /\ wpc' = [k \in 1..NumBatches |-> "waiting"]
  /\ wres' = [k \in 1..NumBatches |-> <<>>]
  /\ UNCHANGED <<n_items, batch_size, max_workers, raised, completed,
                 progress, results, error_stats>>
  /\ UNCHANGED nonBatchVars

\* async with self._semaphore: entered in the order the tasks asked for it
WorkerAcquire(k) ==
  /\ bpc = "workers"
  /\ k \in DOMAIN wpc
  /\ wpc[k] = "waiting"
  /\ \A j \in 1..(k - 1) : wpc[j] # "waiting"
  /\ Cardinality(Running) < max_workers
  /\ wpc' = [wpc EXCEPT ![k] = "running"]
  /\ UNCHANGED <<n_items, batch_size, max_workers, bpc, wres, raised,
                 completed, progress, results, error_stats>>
  /\ UNCHANGED nonBatchVars

\* batch_results.append(x), and once the loop over the batch has ended the
\* counter, the progress callback and the return
WorkerAppend(k, x) ==
  LET r == Append(wres[k], x)
  IN /\ wres' = [wres EXCEPT ![k] = r]
     /\ IF Len(r) = Len(BatchItems(k))
          THEN /\ completed' = completed + Len(BatchItems(k))
               /\ progress' = Append(progress, <<completed', n_items>>)
               /\ wpc' = [wpc EXCEPT ![k] = "returned"]
          ELSE UNCHANGED <<completed, progress, wpc>>

NextItem(k) == BatchItems(k)[Len(wres[k]) + 1]

ItemSucceeds(k) ==
  /\ bpc = "workers"
  /\ k \in Running
  /\ WorkerAppend(k, FOf(NextItem(k)))
  /\ UNCHANGED <<n_items, batch_size, max_workers, bpc, raised, results,
                 error_stats>>
  /\ UNCHANGED nonBatchVars

ItemRaises(k, e) ==
  /\ bpc = "workers"
  /\ k \in Running
  /\ raised' = raised \cup {NextItem(k)}
  /\ IF HandleErrorRaises(e)
       THEN \* the TypeError leaves the except clause and the worker
            /\ wpc' = [wpc EXCEPT ![k] = "raised"]
            /\ UNCHANGED <<wres, completed, progress, error_stats>>
       ELSE /\ error_stats' = handle_error(error_stats, e)
            /\ WorkerAppend(k, None)
  /\ UNCHANGED <<n_items, batch_size, max_workers, bpc, results>>
  /\ UNCHANGED nonBatchVars

RECURSIVE Flatten(_, _, _)
\* the loop over gather's results from batch k on: <<results, error_stats>>
Flatten(k, res, st) ==
  IF k > Len(wpc) THEN <<res, st>>
  ELSE IF wpc[k] = "raised"
    THEN Flatten(k + 1, res, handle_error(st, BuiltinError("TypeError")))
    ELSE Flatten(k + 1, res \o wres[k], st)

GatherReturns ==
  /\ bpc = "workers"
  /\ \A k \in DOMAIN wpc : wpc[k] \in {"returned", "raised"}
  /\ results' = Flatten(1, <<>>, error_stats)[1]
  /\ error_stats' = Flatten(1, <<>>, error_stats)[2]
  /\ bpc' = "done"
  /\ UNCHANGED <<n_items, batch_size, max_workers, wpc, wres, raised,
                 completed, progress>>
  /\ UNCHANGED nonBatchVars

InitBatch ==
  /\ CrawlIdle
  /\ BreakerIdle
  /\ DelayIdle
  /\ HandlerIdle
  /\ RetryIdle
  /\ SafeIdle
  /\ AnalyzerIdle
  /\ LimiterIdle
  /\ SitemapIdle
  /\ n_items \in 0..MaxItems
  /\ batch_size \in 0..MaxBatchSize
  /\ max_workers \in 1..MaxWorkers
  /\ bpc = "idle"
  /\ wpc = <<>>
  /\ wres = <<>>
  /\ raised = {}
  /\ completed = 0
  /\ progress = <<>>
  /\ results = <<>>
  /\ error_stats = [total_errors |-> 0, by_category |-> [c \in {} |-> 0],
                    by_severity |-> [c \in {} |-> 0], recent_errors |-> <<>>]

NextBatch ==
  \/ ProcessBatchStart
  \/ \E k \in 1..MaxItems : WorkerAcquire(k)
  \/ \E k \in 1..MaxItems : ItemSucceeds(k)
  \/ \E k \in 1..MaxItems : \E e \in RaisedByFunc : ItemRaises(k, e)
  \/ GatherReturns

SpecBatch == InitBatch /\ [][NextBatch]_vars

\* C8: once process_batch has returned, its result list has one entry per
\* item, in item order: f(items[i]) where f succeeded and None where f raised.
C8_BatchResults ==
  bpc = "done" =>
    results = [i \in 1..n_items |-> IF i \in raised THEN None ELSE FOf(i)]

\* C9: the completed values passed to progress_callback are strictly
\* increasing and never exceed total = len(items); there is one call per
\* batch, and the last one reports completed = total.
C9_ProgressReports ==
  /\ \A j \in 1..Len(progress) :
       /\ progress[j][2] = n_items
       /\ progress[j][1] <= n_items
       /\ j > 1 => progress[j - 1][1] < progress[j][1]
  /\ bpc = "done" =>
       /\ Len(progress) = NumBatches
       /\ n_items > 0 => progress[Len(progress)][1] = n_items

\* ===================================================================
\* Part 3. CircuitBreaker
\* ===================================================================

MaxThreshold == 3
MaxRecovery == 2
MaxTime == 3
MaxInflight == 2
MaxCalls == 4

_should_attempt_reset_noclock == last_failure_time # -1

_should_attempt_reset_strict ==
  last_failure_time # -1 /\ now - last_failure_time > recovery_timeout

_should_attempt_reset ==
  last_failure_time # -1 /\ now - last_failure_time >= recovery_timeout

ThresholdReached_strict(c) == c > failure_threshold

ThresholdReached(c) == c >= failure_threshold

OpenAfterFailure_closedonly(c) == cb_state = "CLOSED" /\ c >= failure_threshold

\* the test of _on_failure: it does not look at the state the breaker is in
OpenAfterFailure(c) == ThresholdReached(c)

\* the wrapper finds the breaker OPEN before the recovery timeout and raises
\* AnalysisError("Circuit breaker is OPEN") without invoking the function
CallRejected ==
  /\ invoked + rejected < MaxCalls
  /\ cb_state = "OPEN"
  /\ ~_should_attempt_reset
  /\ rejected' = rejected + 1
  /\ UNCHANGED <<failure_threshold, recovery_timeout, cb_state, failure_count,
                 last_failure_time, now, inflight, invoked, failures,
                 returned, half_opened>>
  /\ UNCHANGED nonBreakerVars

\* the wrapper passes the OPEN test and invokes the wrapped function
CallEnters ==
  /\ invoked + rejected < MaxCalls
  /\ inflight < MaxInflight
  /\ cb_state = "OPEN" => _should_attempt_reset
  /\ cb_state' = IF cb_state = "OPEN" THEN "HALF_OPEN" ELSE cb_state
  /\ inflight' = inflight + 1
  /\ invoked' = invoked + 1
  /\ half_opened' = IF cb_state = "OPEN" THEN half_opened + 1 ELSE half_opened
  /\ UNCHANGED <<failure_threshold, recovery_timeout, failure_count,
                 last_failure_time, now, failures, rejected, returned>>
  /\ UNCHANGED nonBreakerVars

\* the wrapped function returns: _on_success
FuncReturns ==
  /\ inflight > 0
  /\ inflight' = inflight - 1
  /\ failure_count' = 0
  /\ cb_state' = "CLOSED"
  /\ returned' = returned + 1
  /\ UNCHANGED <<failure_threshold, recovery_timeout, last_failure_time, now,
                 invoked, failures, rejected, half_opened>>
  /\ UNCHANGED nonBreakerVars

\* the wrapped function raises an expected_exception: _on_failure, re-raise
FuncRaises ==
  /\ inflight > 0
  /\ inflight' = inflight - 1
  /\ failures' = failures + 1
  /\ failure_count' = failure_count + 1
  /\ last_failure_time' = now
  /\ cb_state' = IF OpenAfterFailure(failure_count') THEN "OPEN" ELSE cb_state
  /\ UNCHANGED <<failure_threshold, recovery_timeout, now, invoked, rejected,
                 returned, half_opened>>
  /\ UNCHANGED nonBreakerVars

\* the wrapped function raises something that expected_exception does not
\* match: neither _on_success nor _on_failure runs
FuncRaisesOther ==
  /\ inflight > 0
  /\ inflight' = inflight - 1
  /\ UNCHANGED <<failure_threshold, recovery_timeout, cb_state, failure_count,
                 last_failure_time, now, invoked, failures, rejected,
                 returned, half_opened>>
  /\ UNCHANGED nonBreakerVars

\* time.time() advances
Tick ==
  /\ now < MaxTime
  /\ now' = now + 1
  /\ UNCHANGED <<failure_threshold, recovery_timeout, cb_state, failure_count,
                 last_failure_time, inflight, invoked, failures, rejected,
                 returned, half_opened>>
  /\ UNCHANGED nonBreakerVars

InitBreaker ==
  /\ CrawlIdle
  /\ BatchIdle
  /\ DelayIdle
  /\ HandlerIdle
  /\ RetryIdle
  /\ SafeIdle
  /\ AnalyzerIdle
  /\ LimiterIdle
  /\ SitemapIdle
  /\ failure_threshold \in 1..MaxThreshold
  /\ recovery_timeout \in 1..MaxRecovery
  /\ cb_state = "CLOSED"
  /\ failure_count = 0
  /\ last_failure_time = -1
  /\ now = 0
  /\ inflight = 0
  /\ invoked = 0
  /\ failures = 0
  /\ rejected = 0
  /\ returned = 0
  /\ half_opened = 0

NextBreaker ==
  \/ CallRejected
  \/ CallEnters
  \/ FuncReturns
  \/ FuncRaises
  \/ FuncRaisesOther
  \/ Tick

SpecBreaker == InitBreaker /\ [][NextBreaker]_vars

FailedCall == failures' = failures + 1

\* C10: a breaker starts CLOSED with failure_count 0; every failed call adds
\* one to failure_count and stamps last_failure_time; a CLOSED breaker becomes
\* OPEN on a failed call exactly when that call brings failure_count to
\* failure_threshold, and by no other step.
C10_BreakerOpens ==
  /\ cb_state = "CLOSED" /\ failure_count = 0
  /\ [][FailedCall =>
          /\ failure_count' = failure_count + 1
          /\ last_failure_time' = now
          /\ cb_state = "CLOSED" =>
               /\ cb_state' \in {"CLOSED", "OPEN"}
               /\ cb_state' = "OPEN" <=> failure_count' = failure_threshold]_vars
  /\ [][(cb_state = "CLOSED" /\ cb_state' = "OPEN") => FailedCall]_vars

C10_Witness ==
  /\ cb_state = "OPEN"
  /\ failure_threshold >= 2
  /\ failure_count = failure_threshold
  /\ failures = failure_threshold
  /\ rejected = 0
  /\ last_failure_time = now
  /\ now >= 1

\* a call of the wrapper starts: it is rejected or it invokes the function
CallStep == invoked' # invoked \/ rejected' # rejected

RejectedStep ==
  /\ rejected' = rejected + 1
  /\ invoked' = invoked
  /\ inflight' = inflight
  /\ cb_state' = cb_state
  /\ failure_count' = failure_count
  /\ last_failure_time' = last_failure_time

WithinRecovery ==
  last_failure_time # -1 /\ now - last_failure_time < recovery_timeout

RecoveryElapsed ==
  last_failure_time # -1 /\ now - last_failure_time >= recovery_timeout

\* C11: a call made while the breaker is OPEN and less than recovery_timeout
\* has elapsed since last_failure_time is rejected: the wrapped function is
\* not invoked, and state, failure_count and last_failure_time stay as they are.
C11_OpenRejects ==
  [][(cb_state = "OPEN" /\ WithinRecovery /\ CallStep) => RejectedStep]_vars

C11_Witness ==
  /\ cb_state = "OPEN"
  /\ rejected >= 2
  /\ now > last_failure_time
  /\ WithinRecovery
  /\ invoked = failures

SuccessStep == returned' = returned + 1

\* C12: a call made while the breaker is OPEN and recovery_timeout has elapsed
\* since last_failure_time moves it to HALF_OPEN and invokes the wrapped
\* function; when a call succeeds, the breaker is CLOSED with failure_count 0.
C12_HalfOpenRecovery ==
  /\ [][(cb_state = "OPEN" /\ RecoveryElapsed /\ CallStep) =>
          /\ cb_state' = "HALF_OPEN"
          /\ invoked' = invoked + 1
          /\ inflight' = inflight + 1
          /\ rejected' = rejected]_vars
  /\ [][SuccessStep => (cb_state' = "CLOSED" /\ failure_count' = 0)]_vars

\* failure_threshold calls failed, the next call was let through in HALF_OPEN
\* and returned
C12_Witness ==
  /\ cb_state = "CLOSED"
  /\ failure_count = 0
  /\ half_opened = 1
  /\ returned = 1
  /\ inflight = 0
  /\ invoked = failures + 1
  /\ failures = failure_threshold
  /\ rejected >= 1

\* C13: when a call fails while the breaker is HALF_OPEN the breaker is OPEN
\* right after it, whatever failure_threshold is, with last_failure_time set to
\* the time of that failure; calls made within recovery_timeout of it are
\* rejected without invoking the wrapped function.
C13_HalfOpenFailureReopens ==
  /\ [][(cb_state = "HALF_OPEN" /\ FailedCall) =>
          (cb_state' = "OPEN" /\ last_failure_time' = now)]_vars
  /\ [][(cb_state = "OPEN" /\ half_opened >= 1 /\ WithinRecovery /\ CallStep) =>
          (invoked' = invoked /\ rejected' = rejected + 1)]_vars

C13_Witness ==
  /\ cb_state = "OPEN"
  /\ failure_threshold >= 2
  /\ failure_count = failure_threshold + 1
  /\ failures = failure_count
  /\ invoked = failures
  /\ returned = 0
  /\ half_opened = 1
  /\ rejected >= 1
  /\ WithinRecovery

AllowedTransitions ==
  {<<"CLOSED", "OPEN">>, <<"OPEN", "HALF_OPEN">>,
   <<"HALF_OPEN", "CLOSED">>, <<"HALF_OPEN", "OPEN">>}

\* C30: with calls through one breaker in flight at the same time, in any
\* interleaving, the state changes only from CLOSED to OPEN, from OPEN to
\* HALF_OPEN and from HALF_OPEN to CLOSED or OPEN (so a call that started
\* before the breaker opened does not close it straight from OPEN); an OPEN
\* breaker has failure_count >= failure_threshold and last_failure_time set;
\* a CLOSED breaker has failure_count < failure_threshold.
C30_ConcurrentTransitions ==
  /\ [][cb_state' # cb_state => <<cb_state, cb_state'>> \in AllowedTransitions]_vars
  /\ [](cb_state = "OPEN" =>
          (failure_count >= failure_threshold /\ last_failure_time # -1))
  /\ [](cb_state = "CLOSED" => failure_count < failure_threshold)

\* ===================================================================
\* Part 4. calculate_delay
\* ===================================================================

MaxAttemptArg == 1025

\* Python floats are IEEE doubles: 2.0 ** k is a float for k <= 1023 and
\* raises OverflowError from k = 1024 on
FloatMaxExp == 1024

\* the numbers are floats with whole values; exponential_base is a power of two
ExponentialBases == {1, 2, 4}

BaseDelays == {1, 2}

MaxDelays == {3, 60}

Log2(b) == CASE b = 1 -> 0 [] b = 2 -> 1 [] b = 4 -> 2

\* config.exponential_base ** attempt raises OverflowError
PowOverflows(b, n) == n * Log2(b) >= FloatMaxExp

RECURSIVE PowUpTo(_, _, _, _)
\* min(acc * b ** n, cap), without forming the numbers above cap
PowUpTo(b, n, acc, cap) ==
  IF n = 0 \/ b = 1 \/ acc >= cap THEN Min2(acc, cap)
  ELSE PowUpTo(b, n - 1, acc * b, cap)

\* min(base_delay * exponential_base ** attempt, max_delay), base_delay >= 1
ClampedDelay(n, cfg) ==
  Min2(cfg.base_delay * PowUpTo(cfg.exponential_base, n, 1, cfg.max_delay),
       cfg.max_delay)

\* delay * (0.5 + random.random() * 0.5), in whole units
Jittered(d) == {k \in 0..d : 2 * k >= d}

\* what calculate_delay(n, cfg) can do: the exception it raises, or the delay
calculate_delay(n, cfg) ==
  IF PowOverflows(cfg.exponential_base, n)
  THEN {[raised |-> "OverflowError", delay |-> 0]}
  ELSE {[raised |-> "", delay |-> d] :
          d \in IF cfg.jitter THEN Jittered(ClampedDelay(n, cfg))
                ELSE {ClampedDelay(n, cfg)}}

CalculateDelay ==
  /\ cd_result = <<>>
  /\ \E o \in calculate_delay(cd_attempt, cd_config) : cd_result' = <<o>>
  /\ UNCHANGED <<cd_attempt, cd_config>>
  /\ UNCHANGED nonDelayVars

RetryConfigs ==
  [base_delay : BaseDelays, max_delay : MaxDelays,
   exponential_base : ExponentialBases, jitter : BOOLEAN]

InitDelay ==
  /\ CrawlIdle
  /\ BatchIdle
  /\ BreakerIdle
  /\ HandlerIdle
  /\ RetryIdle
  /\ SafeIdle
  /\ AnalyzerIdle
  /\ LimiterIdle
  /\ SitemapIdle
  /\ cd_attempt \in 0..MaxAttemptArg
  /\ cd_config \in RetryConfigs
  /\ cd_result = <<>>

NextDelay == CalculateDelay

SpecDelay == InitDelay /\ [][NextDelay]_vars

\* min(max_delay, base_delay * exponential_base^n) as a number
ExpectedDelay(n, cfg) ==
  Min2(cfg.max_delay,
       cfg.base_delay * PowUpTo(cfg.exponential_base, n, 1, cfg.max_delay))

ExampleConfig ==
  [base_delay |-> 1, max_delay |-> 60, exponential_base |-> 2, jitter |-> FALSE]

ExampleDelays == (0 :> 1) @@ (1 :> 2) @@ (2 :> 4) @@ (10 :> 60)

\* C14: with jitter disabled calculate_delay(n, config) returns
\* min(max_delay, base_delay * exponential_base^n) for every attempt n >= 0:
\* 1, 2, 4 for attempts 0, 1, 2 and 60 for attempt 10 with base_delay 1,
\* exponential_base 2, max_delay 60; the delay never exceeds max_delay and is
\* not below the delay of the attempt before.
C14_DelayFormula ==
  (cd_result # <<>> /\ ~cd_config.jitter) =>
    /\ cd_result[1].raised = ""
    /\ cd_result[1].delay = ExpectedDelay(cd_attempt, cd_config)
    /\ cd_result[1].delay <= cd_config.max_delay
    /\ cd_attempt > 0 =>
         ExpectedDelay(cd_attempt - 1, cd_config) <= cd_result[1].delay
    /\ (cd_config = ExampleConfig /\ cd_attempt \in DOMAIN ExampleDelays) =>
         cd_result[1].delay = ExampleDelays[cd_attempt]

\* ===================================================================
\* Part 5. ErrorHandler: handle_error, should_continue
\* ===================================================================

MaxHandled == 102
MaxPattern == 2

HighErrorLimit == 10

TotalErrorLimit == 100

should_continue_atlimit(st, ae) ==
  /\ ae.severity # "critical"
  /\ DictGet(st.by_severity, "high") < HighErrorLimit
  /\ st.total_errors < TotalErrorLimit

should_continue(st, ae) ==
  IF ae.severity = "critical" THEN FALSE
  ELSE IF DictGet(st.by_severity, "high") > HighErrorLimit THEN FALSE
  ELSE IF st.total_errors > TotalErrorLimit THEN FALSE
  ELSE TRUE

\* the AnalysisError that a returning handle_error(e) returns
Classified(e) == IF IsAnalysisError(e) THEN e ELSE _classify_error(e)

\* the exceptions handed to handle_error
HandledErrors ==
  {BuiltinError("ConnectionError"), BuiltinError("TimeoutError"),
   BuiltinError("FileNotFoundError"), BuiltinError("ValueError"),
   AnalysisError("parsing", "low"), AnalysisError("browser", "critical")}

\* the errors should_continue is asked about
QueriedErrors ==
  {AnalysisError("unknown", "medium"), AnalysisError("file_system", "high"),
   AnalysisError("browser", "critical")}

\* the exception of the next handle_error call
NextError == eh_input[(Len(eh_log) % Len(eh_input)) + 1]

HandleError ==
  /\ Len(eh_log) < MaxHandled
  /\ LET e == NextError
     IN  /\ eh_log' = Append(eh_log, e)
         /\ IF HandleErrorRaises(e)
            THEN /\ eh_last' = <<[error |-> e, raised |-> "TypeError",
                                 category |-> "", severity |-> ""]>>
                 /\ UNCHANGED eh_stats
            ELSE /\ eh_stats' = handle_error(eh_stats, e)
                 /\ eh_last' = <<[error |-> e, raised |-> "",
                                 category |-> Classified(e).category,
                                 severity |-> Classified(e).severity]>>
  /\ sc_last' = <<>>
  /\ UNCHANGED eh_input
  /\ UNCHANGED nonHandlerVars

ShouldContinue(ae) ==
  /\ sc_last = <<>>
  /\ sc_last' = <<[error |-> ae, result |-> should_continue(eh_stats, ae)]>>
  /\ UNCHANGED <<eh_input, eh_stats, eh_log, eh_last>>
  /\ UNCHANGED nonHandlerVars

InitHandler ==
  /\ CrawlIdle
  /\ BatchIdle
  /\ BreakerIdle
  /\ DelayIdle
  /\ RetryIdle
  /\ SafeIdle
  /\ AnalyzerIdle
  /\ LimiterIdle
  /\ SitemapIdle
  /\ eh_input \in UNION {[1..n -> HandledErrors] : n \in 1..MaxPattern}
  /\ eh_stats = FreshStats
  /\ eh_log = <<>>
  /\ eh_last = <<>>
  /\ sc_last = <<>>

NextHandler ==
  \/ HandleError
  \/ \E ae \in QueriedErrors : ShouldContinue(ae)

SpecHandler == InitHandler /\ [][NextHandler]_vars

\* C17: should_continue(error) is false exactly when the error is critical, or
\* the handler has counted more than 10 high-severity errors, or more than
\* 100 errors in total.
C17_ShouldContinue ==
  sc_last # <<>> =>
    (sc_last[1].result <=>
       ~ \/ sc_last[1].error.severity = "critical"
         \/ DictGet(eh_stats.by_severity, "high") > 10
         \/ eh_stats.total_errors > 100)

\* a medium error is refused at 101 errors in total, none of them high
C17_Witness ==
  /\ sc_last # <<>>
  /\ sc_last[1].error.severity = "medium"
  /\ ~sc_last[1].result
  /\ eh_stats.total_errors = 101
  /\ DictGet(eh_stats.by_severity, "high") = 0

RECURSIVE SumOver(_, _)
SumOver(d, keys) ==
  IF keys = {} THEN 0
  ELSE LET k == CHOOSE x \in keys : TRUE
       IN  d[k] + SumOver(d, keys \ {k})

SumDict(d) == SumOver(d, DOMAIN d)

\* the record of an exception as the claims describe its classification
ExpectedClass(e) ==
  IF IsAnalysisError(e) THEN [category |-> e.category, severity |-> e.severity]
  ELSE IF e.type \in RequestsExceptions
    THEN [category |-> "network", severity |-> "medium"]
  ELSE IF e.type \in TimeoutExceptions
    THEN [category |-> "timeout", severity |-> "medium"]
  ELSE IF e.type \in FileSystemExceptions
    THEN [category |-> "file_system", severity |-> "high"]
  ELSE [category |-> "unknown", severity |-> "medium"]

ExpectedRecent ==
  LET n == Len(eh_log)
      k == IF n < 50 THEN n ELSE 50
  IN  [i \in 1..k |-> ExpectedClass(eh_log[n - k + i])]

\* C18: after any sequence of handle_error calls total_errors is the number of
\* calls, the sum of the by_category counts and the sum of the by_severity
\* counts, and recent_errors is the last min(total_errors, 50) records in
\* arrival order.
C18_StatsConsistent ==
  /\ eh_stats.total_errors = Len(eh_log)
  /\ eh_stats.total_errors = SumDict(eh_stats.by_category)
  /\ eh_stats.total_errors = SumDict(eh_stats.by_severity)
  /\ Len(eh_stats.recent_errors) <= 50
  /\ eh_stats.recent_errors = ExpectedRecent

\* C19: handle_error returns for every exception, with the category and
\* severity of an AnalysisError kept and every other exception classified by
\* its type: network/medium, timeout/medium, file_system/high, unknown/medium.
C19_Classification ==
  eh_last # <<>> =>
    /\ eh_last[1].raised = ""
    /\ eh_last[1].category = ExpectedClass(eh_last[1].error).category
    /\ eh_last[1].severity = ExpectedClass(eh_last[1].error).severity

\* ===================================================================
\* Part 6. retry_on_error
\* ===================================================================

MaxAttempts == 3

\* what the wrapped function raises
RetryRaised ==
  {BuiltinError("ValueError"), BuiltinError("KeyError"),
   BuiltinError("ConnectionError"), BuiltinError("FileNotFoundError"),
   AnalysisError("parsing", "low"), AnalysisError("browser", "critical")}

\* `except exceptions as e` with exceptions = (Exception,) or (ValueError,)
Retryable(e) == rt_config.exceptions = "Exception" \/ e.type = rt_config.exceptions

\* the error_stats of a handler that has handled n times the exception e:
\* _update_stats applied n times to the statistics of a new handler
StatsAfter(e, n) ==
  IF n = 0 THEN FreshStats
  ELSE [total_errors |-> n,
        by_category |-> [c \in {Classified(e).category} |-> n],
        by_severity |-> [c \in {Classified(e).severity} |-> n],
        recent_errors |-> [i \in 1..Min2(n, RecentErrorsLimit) |->
                             [category |-> Classified(e).category,
                              severity |-> Classified(e).severity]]]

\* what the attached handler has handled before the call
PriorStats ==
  {FreshStats,
   StatsAfter(BuiltinError("ValueError"), TotalErrorLimit),
   StatsAfter(BuiltinError("FileNotFoundError"), HighErrorLimit)}

\* the default RetryConfig delays
RetryDelays ==
  [base_delay |-> 1, max_delay |-> 60, exponential_base |-> 2, jitter |-> TRUE]

RetryBreaks_never(st, ae) == FALSE

\* `if not error_handler.should_continue(analysis_error): break`
RetryBreaks(st, ae) == ~should_continue(st, ae)

\* the code after the loop: it raises, after a second handle_error call when a
\* handler is attached
AfterLoop(st, last) ==
  /\ rt_pc' = "done"
  /\ IF rt_config.handler
     THEN /\ rt_stats' = handle_error(st, last)
          /\ rt_outcome' = <<[kind |-> "raised", error |-> Classified(last)]>>
     ELSE /\ rt_stats' = st
          /\ rt_outcome' = <<[kind |-> "raised", error |-> last]>>
  /\ UNCHANGED <<rt_attempt, rt_sleeps>>

\* the end of the except clause: sleep before the next attempt, or leave the
\* loop after the last one
NextAttempt(st, last) ==
  IF rt_attempt < rt_config.max_attempts - 1
  THEN IF \E o \in calculate_delay(rt_attempt, RetryDelays) : o.raised # ""
       THEN /\ rt_pc' = "done"
            /\ rt_stats' = st
            /\ rt_outcome' = <<[kind |-> "raised",
                               error |-> BuiltinError("OverflowError")]>>
            /\ UNCHANGED <<rt_attempt, rt_sleeps>>
       ELSE /\ rt_pc' = "sleep"
            /\ rt_sleeps' = rt_sleeps + 1
            /\ rt_stats' = st
            /\ UNCHANGED <<rt_attempt, rt_outcome>>
  ELSE AfterLoop(st, last)

RetryFuncReturns ==
  /\ rt_pc = "call"
  /\ rt_invoked' = rt_invoked + 1
  /\ rt_pc' = "done"
  /\ rt_outcome' = <<[kind |-> "returned", error |-> BuiltinError("")]>>
  /\ UNCHANGED <<rt_config, rt_stats, rt_attempt, rt_sleeps, rt_raised, rt_stopped>>
  /\ UNCHANGED nonRetryVars

RetryFuncRaises(e) ==
  /\ rt_pc = "call"
  /\ rt_invoked' = rt_invoked + 1
  /\ rt_raised' = Append(rt_raised, e)
  /\ IF ~Retryable(e)
     THEN \* not caught: the exception leaves the wrapper
          /\ rt_pc' = "done"
          /\ rt_outcome' = <<[kind |-> "raised", error |-> e]>>
          /\ UNCHANGED <<rt_stats, rt_attempt, rt_sleeps, rt_stopped>>
     ELSE IF ~rt_config.handler
     THEN /\ NextAttempt(rt_stats, e)
          /\ UNCHANGED rt_stopped
     ELSE IF HandleErrorRaises(e)
     THEN \* handle_error raises inside the except clause
          /\ rt_pc' = "done"
          /\ rt_outcome' = <<[kind |-> "raised", error |-> BuiltinError("TypeError")]>>
          /\ UNCHANGED <<rt_stats, rt_attempt, rt_sleeps, rt_stopped>>
     ELSE LET st == handle_error(rt_stats, e)
          IN  /\ rt_stopped' = ~should_continue(st, Classified(e))
              /\ IF RetryBreaks(st, Classified(e))
                 THEN AfterLoop(st, e)
                 ELSE NextAttempt(st, e)
  /\ UNCHANGED rt_config
  /\ UNCHANGED nonRetryVars

\* asyncio.sleep / time.sleep returns: the next iteration of the loop
RetrySleepDone ==
  /\ rt_pc = "sleep"
  /\ rt_pc' = "call"
  /\ rt_attempt' = rt_attempt + 1
  /\ UNCHANGED <<rt_config, rt_stats, rt_invoked, rt_sleeps, rt_raised,
                 rt_stopped, rt_outcome>>
  /\ UNCHANGED nonRetryVars

InitRetry ==
  /\ CrawlIdle
  /\ BatchIdle
  /\ BreakerIdle
  /\ DelayIdle
  /\ HandlerIdle
  /\ SafeIdle
  /\ AnalyzerIdle
  /\ LimiterIdle
  /\ SitemapIdle
  /\ rt_config \in [max_attempts : 1..MaxAttempts,
                    exceptions : {"Exception", "ValueError"},
                    handler : BOOLEAN]
  /\ rt_stats \in IF rt_config.handler
                  THEN PriorStats
                  ELSE {FreshStats}
  /\ rt_attempt = 0
  /\ rt_pc = "call"
  /\ rt_invoked = 0
  /\ rt_sleeps = 0
  /\ rt_raised = <<>>
  /\ rt_stopped = FALSE
  /\ rt_outcome = <<>>

NextRetry ==
  \/ RetryFuncReturns
  \/ \E e \in RetryRaised : RetryFuncRaises(e)
  \/ RetrySleepDone

SpecRetry == InitRetry /\ [][NextRetry]_vars

AllAttemptsRaised ==
  /\ Len(rt_raised) = rt_config.max_attempts
  /\ \A i \in 1..Len(rt_raised) : Retryable(rt_raised[i])

\* C15: the wrapped function is invoked at most max_attempts times; the wrapper
\* returns at the first invocation that succeeds; when all max_attempts
\* invocations raise a retryable exception the wrapper raises the last of
\* them, with or without an error handler.
C15_RetryContract ==
  /\ rt_invoked <= rt_config.max_attempts
  /\ (rt_outcome # <<>> /\ rt_outcome[1].kind = "returned") =>
       rt_invoked = Len(rt_raised) + 1
  /\ (rt_pc = "done" /\ AllAttemptsRaised) =>
       /\ rt_outcome[1].kind = "raised"
       /\ rt_outcome[1].error = rt_raised[Len(rt_raised)]

\* C16: once should_continue has returned False the wrapped function is not
\* invoked again and the wrapper does not sleep again, whatever attempts
\* remain: the wrapper has raised the classified error.
C16_EarlyStop ==
  /\ [][rt_stopped' =>
          (rt_pc' = "done" /\ rt_sleeps' = rt_sleeps
           /\ rt_outcome' # <<>> /\ rt_outcome'[1].kind = "raised"
           /\ rt_outcome'[1].error = Classified(rt_raised'[Len(rt_raised')]))]_vars
  /\ [][rt_stopped =>
          (rt_invoked' = rt_invoked /\ rt_sleeps' = rt_sleeps)]_vars

\* the second attempt of three was refused by the continuation policy
C16_Witness ==
  /\ rt_stopped
  /\ rt_config.max_attempts = 3
  /\ rt_invoked = 2
  /\ rt_sleeps = 1
  /\ rt_pc = "done"

\* ===================================================================
\* Part 7. SafeExecutor
\* ===================================================================

MaxSafeCalls == 2

\* the values func returns, and the default_return arguments (None is the
\* default)
FuncResults == {1, 2}

DefaultReturns == {None, 9}

\* the exceptions func raises, all of them subclasses of Exception
SafeRaised ==
  {BuiltinError("ValueError"), BuiltinError("ConnectionError"),
   BuiltinError("TimeoutError"), BuiltinError("FileNotFoundError"),
   AnalysisError("validation", "low"), AnalysisError("network", "medium")}

NoError == BuiltinError("")

\* safe_execute (sync = FALSE) and safe_execute_sync (sync = TRUE): func returns v
SafeFuncReturns(sync, d, v) ==
  /\ se_calls < MaxSafeCalls
  /\ se_calls' = se_calls + 1
  /\ se_last' = <<[sync |-> sync, default |-> d,
                   fn |-> "returned", fn_value |-> v, fn_error |-> NoError,
                   kind |-> "returned", value |-> v, error |-> NoError]>>
  /\ UNCHANGED se_stats
  /\ UNCHANGED nonSafeVars

\* func raises e: `except Exception as e: handle_error(e, error_context);
\* return default_return`
SafeFuncRaises(sync, d, e) ==
  /\ se_calls < MaxSafeCalls
  /\ se_calls' = se_calls + 1
  /\ IF HandleErrorRaises(e)
     THEN \* handle_error raises inside the except clause
          /\ se_last' = <<[sync |-> sync, default |-> d,
                           fn |-> "raised", fn_value |-> None, fn_error |-> e,
                           kind |-> "raised", value |-> None,
                           error |-> BuiltinError("TypeError")]>>
          /\ UNCHANGED se_stats
     ELSE /\ se_stats' = handle_error(se_stats, e)
          /\ se_last' = <<[sync |-> sync, default |-> d,
                           fn |-> "raised", fn_value |-> None, fn_error |-> e,
                           kind |-> "returned", value |-> d, error |-> NoError]>>
  /\ UNCHANGED nonSafeVars

InitSafe ==
  /\ CrawlIdle
  /\ BatchIdle
  /\ BreakerIdle
  /\ DelayIdle
  /\ HandlerIdle
  /\ RetryIdle
  /\ AnalyzerIdle
  /\ LimiterIdle
  /\ SitemapIdle
  /\ se_stats \in PriorStats
  /\ se_calls = 0
  /\ se_last = <<>>

NextSafe ==
  \/ \E sync \in BOOLEAN, d \in DefaultReturns, v \in FuncResults :
       SafeFuncReturns(sync, d, v)
  \/ \E sync \in BOOLEAN, d \in DefaultReturns, e \in SafeRaised :
       SafeFuncRaises(sync, d, e)

SpecSafe == InitSafe /\ [][NextSafe]_vars

SafeCallStep == se_calls' = se_calls + 1

\* C20: safe_execute and safe_execute_sync return func's result when func
\* returns, leaving the statistics alone; when func raises any exception they
\* record exactly one error in the handler's statistics and return the
\* default, and no exception reaches the caller.
C20_SafeExecute ==
  [][SafeCallStep =>
       LET o == se_last'[1]
       IN  /\ o.kind = "returned"
           /\ IF o.fn = "returned"
              THEN o.value = o.fn_value /\ se_stats' = se_stats
              ELSE /\ o.value = o.default
                   /\ se_stats'.total_errors = se_stats.total_errors + 1
                   /\ Len(se_stats'.recent_errors) =
                        Min2(Len(se_stats.recent_errors) + 1, RecentErrorsLimit)]_vars

\* ===================================================================
\* Part 8. SiteAnalyzer.analyze_site
\* ===================================================================

MaxNow == 2
MaxMarks == 2

\* how many different (phase, exception) failures one run has at most
MaxFailures == 1

\* a site that is large enough for the handler's thresholds to be passed by
\* one failure per page
ManyPages == TotalErrorLimit + 1

\* how many pages of the site the crawl leaves successfully crawled
CrawledCounts == {0, 1, ManyPages}

\* what a crawler, an extractor, a processor or a writer raises
PhaseRaised ==
  {BuiltinError("ValueError"), BuiltinError("ConnectionError"),
   BuiltinError("FileNotFoundError"), AnalysisError("unknown", "critical")}

\* a phase function returns ("ok") or raises one of PhaseRaised
PhaseOutcomes == {[raised |-> FALSE, error |-> NoError]}
                   \cup {[raised |-> TRUE, error |-> e] : e \in PhaseRaised}

\* in a phase that loops over the c crawled pages: on how many pages the
\* extractor raises, and what
PageOutcomes(c) ==
  {[raised |-> FALSE, error |-> NoError, count |-> 0]}
    \cup {[raised |-> TRUE, error |-> e, count |-> n] :
            e \in PhaseRaised, n \in {1, c} \ {0}}

\* the statistics after n calls handle_error(e) that return
HandleMany(st, e, n) ==
  IF n = 0 THEN st
  ELSE LET ae == Classified(e)
       IN  [total_errors |-> st.total_errors + n,
            by_category |-> DictPut(st.by_category, ae.category,
                                    DictGet(st.by_category, ae.category) + n),
            by_severity |-> DictPut(st.by_severity, ae.severity,
                                    DictGet(st.by_severity, ae.severity) + n),
            recent_errors |->
              LastN(st.recent_errors \o
                      [i \in 1..Min2(n, RecentErrorsLimit) |->
                         [category |-> ae.category, severity |-> ae.severity]],
                    RecentErrorsLimit)]

\* Site.add_warning, Site.add_error: the text is added unless it is there
add_site_warning(site, w) == [site EXCEPT !.warnings = @ \cup {w}]

add_site_error(site, w) == [site EXCEPT !.errors = @ \cup {w}]

\* Site.mark_analysis_complete at time t
mark_analysis_complete(site, t) ==
  [site EXCEPT !.analysis_completed_at = t,
               !.stats = [total_pages_crawled |-> site.crawled,
                          total_pages_analyzed |-> site.analyzed,
                          analysis_duration_seconds |-> t - site.analysis_started_at]]

RunsAssets_always(cfg) == TRUE

\* `if self.download_assets:`
RunsAssets(cfg) == cfg.download_assets

\* the statement that follows phase p in analyze_site
PhaseAfter(p, cfg) ==
  CASE p = "Crawl" -> "ParallelAnalyze"
    [] p = "ParallelAnalyze" -> "PatternRecognize"
    [] p = "PatternRecognize" ->
         IF RunsAssets(cfg) THEN "AssetProcess" ELSE "APIDiscover"
    [] p = "AssetProcess" -> "APIDiscover"
    [] p = "APIDiscover" -> "Complete"
    [] p = "Complete" -> "ValidationScore"
    [] p = "ValidationScore" -> "OutputGenerate"
    [] p = "OutputGenerate" -> "done"

PhaseNames ==
  {"Crawl", "ParallelAnalyze", "PatternRecognize", "AssetProcess",
   "APIDiscover", "ValidationScore", "OutputGenerate"}

\* `except Exception as e:` of analyze_site, entered with exception e
Abort(e, st, site) ==
  /\ an_pc' = "done"
  /\ an_running' = FALSE
  /\ IF HandleErrorRaises(e)
     THEN /\ an_stats' = st
          /\ an_site' = site
          /\ an_result' = <<[kind |-> "raised", error |-> BuiltinError("TypeError")]>>
     ELSE /\ an_stats' = handle_error(st, e)
          /\ IF Classified(e).severity = "critical" \/ ~site.bound
             THEN /\ an_site' = site
                  /\ an_result' = <<[kind |-> "raised", error |-> Classified(e)]>>
             ELSE /\ an_site' = add_site_error(site, "Analysis incomplete")
                  /\ an_result' = <<[kind |-> "returned", error |-> NoError]>>

\* the phase ends without an exception reaching analyze_site
Proceed(st, site) ==
  /\ an_pc' = PhaseAfter(an_pc, an_cfg)
  /\ an_running' = FALSE
  /\ an_stats' = st
  /\ an_site' = site
  /\ UNCHANGED an_result

Failed(p, o) == IF o.raised THEN {[phase |-> p, error |-> o.error]} ELSE {}

\* the exception that is counted when safe_execute is left by exception e
\* inside a try block whose except clause calls handle_error again
CountedAs(e) == IF HandleErrorRaises(e) THEN BuiltinError("TypeError") ELSE e

\* site = self._initialize_site(url, config, metadata)
InitializeSite(valid) ==
  /\ an_pc = "start"
  /\ IF valid
     THEN /\ an_pc' = "Crawl"
          /\ an_site' = NewSite(an_now)
          /\ UNCHANGED <<an_running, an_stats, an_result>>
     ELSE \* Site(base_url=url) raises pydantic's ValidationError
          Abort(BuiltinError("PydanticValidationError"), an_stats, an_site)
  /\ UNCHANGED <<an_cfg, an_attempt, an_log, an_failed, an_now, an_marks, an_outputs>>
  /\ UNCHANGED nonAnalyzerVars

\* a phase starts: its coroutine is entered
PhaseStart ==
  /\ an_pc \in PhaseNames
  /\ ~an_running
  /\ an_running' = TRUE
  /\ an_log' = IF an_pc = "Crawl" /\ an_attempt > 0 THEN an_log
               ELSE Append(an_log, an_pc)
  /\ an_outputs' = IF an_pc = "OutputGenerate" THEN an_outputs + 1 ELSE an_outputs
  /\ UNCHANGED <<an_cfg, an_pc, an_attempt, an_failed, an_stats, an_site,
                 an_now, an_marks, an_result>>
  /\ UNCHANGED nonAnalyzerVars

\* _crawl_site: crawler.crawl_site inside safe_execute, inside try/except,
\* inside retry_on_error(exceptions=(AnalysisError,))
CrawlEnds(o, c) ==
  /\ an_pc = "Crawl" /\ an_running
  /\ an_failed' = an_failed \cup Failed("Crawl", o)
  /\ Cardinality(an_failed') <= MaxFailures
  /\ LET site == [an_site EXCEPT !.crawled = c]
     IN  IF ~o.raised
         THEN Proceed(an_stats, site) /\ UNCHANGED an_attempt
         ELSE IF ~HandleErrorRaises(o.error)
         THEN \* handle_error records it, safe_execute returns default_return
              Proceed(handle_error(an_stats, o.error), site) /\ UNCHANGED an_attempt
         ELSE \* handle_error raises; `raise AnalysisError(.., NETWORK, HIGH)`
              IF an_attempt < 3 - 1
              THEN /\ an_attempt' = an_attempt + 1
                   /\ an_running' = FALSE
                   /\ an_site' = site
                   /\ UNCHANGED <<an_pc, an_stats, an_result>>
              ELSE /\ Abort(AnalysisError("network", "high"), an_stats, site)
                   /\ UNCHANGED an_attempt
  /\ UNCHANGED <<an_cfg, an_log, an_now, an_marks, an_outputs>>
  /\ UNCHANGED nonAnalyzerVars

\* _analyze_content_and_design_parallel: the pages in process_batch, then the
\* global design analysis, which is not inside a try block
ParallelEnds(po, g) ==
  /\ an_pc = "ParallelAnalyze" /\ an_running
  /\ an_failed' = an_failed \cup Failed("ParallelAnalyze", po)
                            \cup Failed("ParallelAnalyze", g)
  /\ Cardinality(an_failed') <= MaxFailures
  /\ LET st1 == HandleMany(an_stats, CountedAs(po.error), po.count)
         site == [an_site EXCEPT !.analyzed =
                    IF po.raised /\ HandleErrorRaises(po.error)
                    THEN an_site.crawled - po.count ELSE an_site.crawled]
     IN  IF ~g.raised THEN Proceed(st1, site)
         ELSE IF ~HandleErrorRaises(g.error)
         THEN Proceed(handle_error(st1, g.error), site)
         ELSE Abort(BuiltinError("TypeError"), st1, site)
  /\ UNCHANGED <<an_cfg, an_attempt, an_log, an_now, an_marks, an_outputs>>
  /\ UNCHANGED nonAnalyzerVars

\* _recognize_patterns and _discover_apis: one safe_execute call inside try
SingleCallEnds(o) ==
  /\ an_pc \in {"PatternRecognize", "APIDiscover"} /\ an_running
  /\ an_failed' = an_failed \cup Failed(an_pc, o)
  /\ Cardinality(an_failed') <= MaxFailures
  /\ IF ~o.raised THEN Proceed(an_stats, an_site)
     ELSE IF ~HandleErrorRaises(o.error)
     THEN Proceed(handle_error(an_stats, o.error), an_site)
     ELSE \* the except clause: site.add_warning, handle_error(TypeError)
          Proceed(handle_error(an_stats, BuiltinError("TypeError")),
                  add_site_warning(an_site, an_pc))
  /\ UNCHANGED <<an_cfg, an_attempt, an_log, an_now, an_marks, an_outputs>>
  /\ UNCHANGED nonAnalyzerVars

\* _process_assets: one safe_execute call per crawled page, each inside try;
\* the except clause warns on the page, not on the site
AssetsEnds(po) ==
  /\ an_pc = "AssetProcess" /\ an_running
  /\ an_failed' = an_failed \cup Failed("AssetProcess", po)
  /\ Cardinality(an_failed') <= MaxFailures
  /\ Proceed(HandleMany(an_stats, CountedAs(po.error), po.count), an_site)
  /\ UNCHANGED <<an_cfg, an_attempt, an_log, an_now, an_marks, an_outputs>>
  /\ UNCHANGED nonAnalyzerVars

\* site.mark_analysis_complete() in analyze_site
MarkComplete ==
  /\ an_pc = "Complete"
  /\ an_marks' = an_marks + 1
  /\ Proceed(an_stats, mark_analysis_complete(an_site, an_now))
  /\ UNCHANGED <<an_cfg, an_attempt, an_log, an_failed, an_now, an_outputs>>
  /\ UNCHANGED nonAnalyzerVars

\* _calculate_validation_scores, called outside any inner try block
ValidationEnds(o) ==
  /\ an_pc = "ValidationScore" /\ an_running
  /\ an_failed' = an_failed \cup Failed("ValidationScore", o)
  /\ Cardinality(an_failed') <= MaxFailures
  /\ IF ~o.raised THEN Proceed(an_stats, an_site)
     ELSE Abort(o.error, an_stats, an_site)
  /\ UNCHANGED <<an_cfg, an_attempt, an_log, an_now, an_marks, an_outputs>>
  /\ UNCHANGED nonAnalyzerVars

\* _generate_outputs: the JSON writer, then the Markdown writer when
\* generate_markdown is set; each except clause calls handle_error(e)
OutputEnds(j, m) ==
  /\ an_pc = "OutputGenerate" /\ an_running
  /\ an_cfg.generate_markdown \/ ~m.raised
  /\ an_failed' = an_failed \cup Failed("OutputGenerate", j)
                            \cup Failed("OutputGenerate", m)
  /\ Cardinality(an_failed') <= MaxFailures
  /\ LET sitej == IF j.raised THEN add_site_error(an_site, "JSON output") ELSE an_site
         stj == IF j.raised /\ ~HandleErrorRaises(j.error)
                THEN handle_error(an_stats, j.error) ELSE an_stats
         sitem == IF m.raised THEN add_site_warning(sitej, "Markdown output") ELSE sitej
     IN  IF j.raised /\ HandleErrorRaises(j.error)
         THEN Abort(BuiltinError("TypeError"), an_stats, sitej)
         ELSE IF m.raised /\ HandleErrorRaises(m.error)
         THEN Abort(BuiltinError("TypeError"), stj, sitem)
         ELSE /\ an_pc' = "done"
              /\ an_running' = FALSE
              /\ an_stats' = IF m.raised THEN handle_error(stj, m.error) ELSE stj
              /\ an_site' = sitem
              /\ an_result' = <<[kind |-> "returned", error |-> NoError]>>
  /\ UNCHANGED <<an_cfg, an_attempt, an_log, an_now, an_marks, an_outputs>>
  /\ UNCHANGED nonAnalyzerVars

\* the caller of analyze_site calls site.mark_analysis_complete() on the
\* Site it got back
MarkAgain ==
  /\ an_pc = "done"
  /\ an_result # <<>> /\ an_result[1].kind = "returned"
  /\ an_marks < MaxMarks
  /\ an_marks' = an_marks + 1
  /\ an_site' = mark_analysis_complete(an_site, an_now)
  /\ UNCHANGED <<an_cfg, an_pc, an_running, an_attempt, an_log, an_failed,
                 an_stats, an_now, an_outputs, an_result>>
  /\ UNCHANGED nonAnalyzerVars

\* time passes
AnalyzerTick ==
  /\ an_now < MaxNow
  /\ an_now' = an_now + 1
  /\ UNCHANGED <<an_cfg, an_pc, an_running, an_attempt, an_log, an_failed,
                 an_stats, an_site, an_marks, an_outputs, an_result>>
  /\ UNCHANGED nonAnalyzerVars

InitAnalyzer ==
  /\ CrawlIdle
  /\ BatchIdle
  /\ BreakerIdle
  /\ DelayIdle
  /\ HandlerIdle
  /\ RetryIdle
  /\ SafeIdle
  /\ LimiterIdle
  /\ SitemapIdle
  /\ an_cfg \in [download_assets : BOOLEAN, generate_markdown : BOOLEAN]
  /\ an_pc = "start"
  /\ an_running = FALSE
  /\ an_attempt = 0
  /\ an_log = <<>>
  /\ an_failed = {}
  /\ an_stats = FreshStats
  /\ an_site = NoSite
  /\ an_now = 0
  /\ an_marks = 0
  /\ an_outputs = 0
  /\ an_result = <<>>

NextAnalyzer ==
  \/ \E valid \in BOOLEAN : InitializeSite(valid)
  \/ PhaseStart
  \/ \E o \in PhaseOutcomes, c \in CrawledCounts : CrawlEnds(o, c)
  \/ \E po \in PageOutcomes(an_site.crawled), g \in PhaseOutcomes : ParallelEnds(po, g)
  \/ \E o \in PhaseOutcomes : SingleCallEnds(o)
  \/ \E po \in PageOutcomes(an_site.crawled) : AssetsEnds(po)
  \/ MarkComplete
  \/ \E o \in PhaseOutcomes : ValidationEnds(o)
  \/ \E j \in PhaseOutcomes, m \in PhaseOutcomes : OutputEnds(j, m)
  \/ MarkAgain
  \/ AnalyzerTick

SpecAnalyzer == InitAnalyzer /\ [][NextAnalyzer]_vars

IsPrefix(a, b) == Len(a) <= Len(b) /\ SubSeq(b, 1, Len(a)) = a

\* the order of the phases for an analyzer with download_assets = d
ExpectedOrder(d) ==
  IF d
  THEN <<"Crawl", "ParallelAnalyze", "PatternRecognize", "AssetProcess",
         "APIDiscover", "ValidationScore", "OutputGenerate">>
  ELSE <<"Crawl", "ParallelAnalyze", "PatternRecognize",
         "APIDiscover", "ValidationScore", "OutputGenerate">>

\* C21: the phases start in the fixed order Crawl, ParallelAnalyze,
\* PatternRecognize, AssetProcess (only with download_assets), APIDiscover,
\* ValidationScore, OutputGenerate; Crawl is the first phase of every run that
\* returns a Site; a phase starts only when no phase is running; outputs are
\* generated at most once and only after validation scoring has finished.
C21_PhaseOrder ==
  /\ [](/\ IsPrefix(an_log, ExpectedOrder(an_cfg.download_assets))
        /\ an_outputs <= 1
        /\ (an_outputs = 1) <=> (an_log = ExpectedOrder(an_cfg.download_assets))
        /\ (an_result # <<>> /\ an_result[1].kind = "returned") =>
             (an_log # <<>> /\ an_log[1] = "Crawl"))
  /\ [][(an_log' # an_log \/ an_outputs' # an_outputs) =>
          (~an_running /\ an_running' /\ an_pc' = an_log'[Len(an_log')])]_vars

\* a run with asset processing that went through all seven phases
C21_Witness ==
  /\ an_result # <<>> /\ an_result[1].kind = "returned"
  /\ an_cfg.download_assets
  /\ Len(an_log) = 7
  /\ an_outputs = 1
  /\ an_failed = {}

\* the phases whose function runs inside safe_execute inside a try block
WrappedPhases == {"Crawl", "PatternRecognize", "AssetProcess", "APIDiscover"}

NonCritical(e) == ~(IsAnalysisError(e) /\ e.severity = "critical")

\* the run is over and every phase of the fixed order was started
AllPhasesRan ==
  an_pc = "done" => an_log = ExpectedOrder(an_cfg.download_assets)

\* C22: when the function of the crawl, pattern recognition, asset processing
\* or API discovery phase has raised a non-critical exception, site.warnings
\* holds a warning for that phase, and the run goes on through every later
\* phase with the same Site.
C22_PhaseFailureWarns ==
  \A f \in an_failed :
    (f.phase \in WrappedPhases /\ NonCritical(f.error)) =>
      /\ f.phase \in an_site.warnings
      /\ AllPhasesRan

\* C23: once the function of any phase has raised an error of severity
\* critical, analyze_site is over and has raised: the next phase is not
\* started and no outputs are generated afterwards.
C23_CriticalAborts ==
  /\ [](\A f \in an_failed :
          ~NonCritical(f.error) =>
            (an_pc = "done" /\ an_result # <<>> /\ an_result[1].kind = "raised"))
  /\ [][(\E f \in an_failed : ~NonCritical(f.error)) =>
          (an_log' = an_log /\ an_outputs' = an_outputs)]_vars

\* the continuation policy of the handler refuses: more than 10 errors of
\* severity high, or more than 100 errors
PolicyTripped(st) ==
  \/ DictGet(st.by_severity, "high") > HighErrorLimit
  \/ st.total_errors > TotalErrorLimit

\* C24: once the handler has recorded more than 10 high-severity errors or
\* more than 100 errors, no further phase is started; the run ends and
\* returns the Site.
C24_PolicyStopsRun ==
  /\ [][PolicyTripped(an_stats) => (an_log' = an_log /\ ~(an_running' /\ ~an_running))]_vars
  /\ []((PolicyTripped(an_stats) /\ an_pc = "done") =>
          (an_result # <<>> /\ an_result[1].kind = "returned"))

MarkStep == an_marks' = an_marks + 1

SiteReturned(r) == r # <<>> /\ r[1].kind = "returned"

\* C25: a call of mark_analysis_complete on a Site that is already complete,
\* with the same pages, leaves every field of site.stats as it was; and when
\* analyze_site returns the Site, mark_analysis_complete has been called on
\* it exactly once.
C25_IdempotentCompletion ==
  /\ [][(MarkStep /\ an_site.analysis_completed_at # NotCompleted
           /\ an_site'.crawled = an_site.crawled
           /\ an_site'.analyzed = an_site.analyzed) =>
          an_site'.stats = an_site.stats]_vars
  /\ [][(~SiteReturned(an_result) /\ SiteReturned(an_result')) =>
          an_marks' = 1]_vars

\* ===================================================================
\* Part 9. crawl_site as a task: level dispatch and cancellation
\* ===================================================================

\* asyncio delivers CancelledError to a coroutine at the await where it is
\* suspended. The static crawler is suspended only inside session.get; the
\* dynamic crawler at every step of a page and between the levels.
CanBeCancelled ==
  /\ phase = "crawl"
  /\ ~SyncBusy
  /\ Static => (levelOpen /\ InFlight # {} /\ \A t \in InFlight : pc[t] = "fetch")

\* the task that runs crawl_site is cancelled. CancelledError is a
\* BaseException: `except Exception` of _crawl_page does not catch it, the
\* finally clauses close the browser page and the session, and no Page is
\* touched.
CancelCrawl ==
  /\ CanBeCancelled
  /\ phase' = "cancelled"
  /\ pc' = [t \in DOMAIN pc |-> "done"]
  /\ work' = <<>>
  /\ levelOpen' = FALSE
  /\ UNCHANGED <<crawler, config, robots_txt, robots_loaded, discovered_urls,
                 crawled_urls, objs, pages, depth, call>>
  /\ UNCHANGED nonCrawlVars

\* one level below the start page is enough for a level with several pages
DispatchConfigs ==
  [max_depth : {1}, max_pages : 1..MaxPagesBound,
   concurrent_requests : 1..MaxConcurrent, respect_robots_txt : {FALSE}]

InitDispatch ==
  /\ BatchIdle
  /\ BreakerIdle
  /\ DelayIdle
  /\ HandlerIdle
  /\ RetryIdle
  /\ SafeIdle
  /\ AnalyzerIdle
  /\ LimiterIdle
  /\ SitemapIdle
  /\ crawler \in {"static", "dynamic"}
  /\ config \in DispatchConfigs
  /\ robots_txt = TRUE
  /\ robots_loaded = FALSE
  /\ discovered_urls = {}
  /\ crawled_urls = {}
  /\ objs = <<>>
  /\ pages = <<>>
  /\ phase = "init"
  /\ depth = 0
  /\ levelOpen = FALSE
  /\ work = <<>>
  /\ pc = <<>>
  /\ call = <<>>

NextDispatch ==
  \/ NextCrawl
  \/ CancelCrawl

SpecDispatch == InitDispatch /\ [][NextDispatch]_vars

BeingFetched == {i \in PageIds : objs[i].status = "crawling"}

\* a page of the open level has not been started although the configured
\* number of concurrent requests is not reached
PageWaitsWithCapacity ==
  /\ phase = "crawl" /\ levelOpen /\ ~SyncBusy
  /\ work # <<>>
  /\ Cardinality(InFlight) < config.concurrent_requests

\* C26: never more than config.concurrent_requests pages are in status
\* crawling, and the pending pages of a level are dispatched concurrently: a
\* page of the level waits to be started only while concurrent_requests
\* pages are in flight.
C26_LevelDispatch ==
  /\ Cardinality(BeingFetched) <= config.concurrent_requests
  /\ PageWaitsWithCapacity => ENABLED StartCrawl

\* C27: when crawl_site has returned, and when it was cancelled, no page is
\* in status crawling: every page that was dispatched is completed or failed,
\* and a failed page carries an error.
C27_NoPageLeftCrawling ==
  (phase \in {"done", "cancelled"}) =>
    \A i \in PageIds :
      /\ objs[i].status # "crawling"
      /\ objs[i].status = "failed" => objs[i].errors # {}

\* ===================================================================
\* Part 10. RateLimiter.wait behind the semaphore of AsyncHTTPSession
\* ===================================================================

MaxRequests == 3
MaxRateDelay == 2
MaxSessionLimit == 2
MaxElapsed == 4

Requests == 1..MaxRequests

\* requests that hold a permit of session.semaphore
HoldsPermit == {c \in DOMAIN rl_pc : rl_pc[c] \in {"sleeping", "request"}}

\* `self.last_request_time = time.time()`; wait() returns
Release(c) ==
  /\ rl_last' = rl_now
  /\ rl_released' = Append(rl_released, rl_now)
  /\ rl_pc' = [rl_pc EXCEPT ![c] = "request"]

\* _AsyncRequestContext.__aenter__: the semaphore is acquired and wait() runs
\* up to its await, or to its end when no sleep is needed
WaitEnter(c) ==
  /\ rl_pc[c] = "new"
  /\ Cardinality(HoldsPermit) < rl_limit
  /\ LET time_since_last == rl_now - rl_last
     IN  IF time_since_last < rl_delay
         THEN /\ rl_pc' = [rl_pc EXCEPT ![c] = "sleeping"]
              /\ rl_wake' = [rl_wake EXCEPT ![c] = rl_now + (rl_delay - time_since_last)]
              /\ UNCHANGED <<rl_last, rl_released>>
         ELSE /\ Release(c)
              /\ UNCHANGED rl_wake
  /\ UNCHANGED <<rl_delay, rl_limit, rl_now>>
  /\ UNCHANGED nonLimiterVars

\* asyncio.sleep ends, not before its time
WaitWakes(c) ==
  /\ rl_pc[c] = "sleeping"
  /\ rl_now >= rl_wake[c]
  /\ Release(c)
  /\ UNCHANGED <<rl_delay, rl_limit, rl_now, rl_wake>>
  /\ UNCHANGED nonLimiterVars

\* the HTTP request ends and the semaphore is released
RequestDone(c) ==
  /\ rl_pc[c] = "request"
  /\ rl_pc' = [rl_pc EXCEPT ![c] = "done"]
  /\ UNCHANGED <<rl_delay, rl_limit, rl_last, rl_now, rl_wake, rl_released>>
  /\ UNCHANGED nonLimiterVars

LimiterTick ==
  /\ rl_now < rl_delay + MaxElapsed
  /\ rl_now' = rl_now + 1
  /\ UNCHANGED <<rl_delay, rl_limit, rl_last, rl_pc, rl_wake, rl_released>>
  /\ UNCHANGED nonLimiterVars

InitLimiter ==
  /\ CrawlIdle
  /\ BatchIdle
  /\ BreakerIdle
  /\ DelayIdle
  /\ HandlerIdle
  /\ RetryIdle
  /\ SafeIdle
  /\ AnalyzerIdle
  /\ SitemapIdle
  /\ rl_delay \in 1..MaxRateDelay
  /\ rl_limit \in 1..MaxSessionLimit
  /\ rl_last = 0
  \* time.time() is far from 0: the first request finds the delay elapsed
  /\ rl_now = rl_delay
  /\ rl_pc = [c \in Requests |-> "new"]
  /\ rl_wake = [c \in Requests |-> 0]
  /\ rl_released = <<>>

NextLimiter ==
  \/ \E c \in Requests : WaitEnter(c)
  \/ \E c \in Requests : WaitWakes(c)
  \/ \E c \in Requests : RequestDone(c)
  \/ LimiterTick

SpecLimiter == InitLimiter /\ [][NextLimiter]_vars

\* C28: any two requests released by the same RateLimiter are released at
\* least delay apart, the first one at once, also when several requests wait
\* on the limiter concurrently.
C28_ReleasesSpaced ==
  /\ [](\A i \in 1..Len(rl_released) : \A j \in 1..Len(rl_released) :
         i < j => rl_released[j] - rl_released[i] >= rl_delay)
  /\ [][(rl_released = <<>> /\ \E c \in Requests : rl_pc[c] = "new" /\ rl_pc'[c] # "new")
          => Len(rl_released') = 1]_vars

\* ===================================================================
\* Part 11. Sitemap discovery of the static crawler
\* ===================================================================

\* the recursion limit of the interpreter, in _parse_sitemap calls
MaxRecursion == 4

SitemapUrls == {"/sitemap.xml", "/sitemap_index.xml"}

LeafUrls == {"/a", "/b"}

\* a sitemap document: whether the GET answers 200 with XML, its
\* <url><loc> texts and its <sitemap><loc> texts
SitemapDocs ==
  [ok : BOOLEAN, locs : SUBSET LeafUrls, nested : SUBSET SitemapUrls]

\* a call _parse_sitemap(u): the fetch, and what its two loops have to do.
\* Any other status, and any exception of the fetch or the parser, leaves
\* nothing to do.
Frame(u) ==
  [url |-> u,
   locs |-> IF sm_docs[u].ok THEN sm_docs[u].locs ELSE {},
   nested |-> IF sm_docs[u].ok THEN sm_docs[u].nested ELSE {}]

Top == sm_stack[Len(sm_stack)]

Pop == SubSeq(sm_stack, 1, Len(sm_stack) - 1)

SetTop(f) == [sm_stack EXCEPT ![Len(sm_stack)] = f]

\* `for sitemap_url in sitemap_urls: await self._parse_sitemap(sitemap_url)`
ParseRoot ==
  /\ sm_phase = "discover"
  /\ sm_stack = <<>>
  /\ sm_roots # <<>>
  /\ sm_stack' = <<Frame(Head(sm_roots))>>
  /\ sm_fetches' = [sm_fetches EXCEPT ![Head(sm_roots)] = @ + 1]
  /\ sm_roots' = Tail(sm_roots)
  /\ UNCHANGED <<sm_docs, sm_offered, sm_phase>>
  /\ UNCHANGED nonSitemapVars

\* the first loop: self._add_discovered_url(url_elem.text, depth=1)
OfferLoc(x) ==
  /\ sm_stack # <<>>
  /\ x \in Top.locs
  /\ sm_offered' = sm_offered \cup {[url |-> x, depth |-> 1]}
  /\ sm_stack' = SetTop([Top EXCEPT !.locs = @ \ {x}])
  /\ UNCHANGED <<sm_docs, sm_roots, sm_fetches, sm_phase>>
  /\ UNCHANGED nonSitemapVars

\* the second loop: await self._parse_sitemap(sitemap_elem.text). Beyond the
\* recursion limit the call raises RecursionError, which the except clause of
\* the calling _parse_sitemap catches: that call ends with a warning.
ParseNested(n) ==
  /\ sm_stack # <<>>
  /\ Top.locs = {}
  /\ n \in Top.nested
  /\ IF Len(sm_stack) >= MaxRecursion
     THEN /\ sm_stack' = Pop
          /\ UNCHANGED sm_fetches
     ELSE /\ sm_stack' = Append(SetTop([Top EXCEPT !.nested = @ \ {n}]), Frame(n))
          /\ sm_fetches' = [sm_fetches EXCEPT ![n] = @ + 1]
  /\ UNCHANGED <<sm_docs, sm_roots, sm_offered, sm_phase>>
  /\ UNCHANGED nonSitemapVars

\* both loops are over: _parse_sitemap returns
ParseReturns ==
  /\ sm_stack # <<>>
  /\ Top.locs = {} /\ Top.nested = {}
  /\ sm_stack' = Pop
  /\ UNCHANGED <<sm_docs, sm_roots, sm_fetches, sm_offered, sm_phase>>
  /\ UNCHANGED nonSitemapVars

\* _discover_initial_urls returns; crawl_site goes on to _crawl_by_depth
DiscoveryReturns ==
  /\ sm_phase = "discover"
  /\ sm_stack = <<>>
  /\ sm_roots = <<>>
  /\ sm_phase' = "crawl"
  /\ UNCHANGED <<sm_docs, sm_roots, sm_stack, sm_fetches, sm_offered>>
  /\ UNCHANGED nonSitemapVars

InitSitemap ==
  /\ CrawlIdle
  /\ BatchIdle
  /\ BreakerIdle
  /\ DelayIdle
  /\ HandlerIdle
  /\ RetryIdle
  /\ SafeIdle
  /\ AnalyzerIdle
  /\ LimiterIdle
  /\ sm_docs \in [SitemapUrls -> SitemapDocs]
  /\ sm_roots = <<"/sitemap.xml", "/sitemap_index.xml">>
  /\ sm_stack = <<>>
  /\ sm_fetches = [u \in SitemapUrls |-> 0]
  /\ sm_offered = {}
  /\ sm_phase = "discover"

NextSitemap ==
  \/ ParseRoot
  \/ \E x \in LeafUrls : OfferLoc(x)
  \/ \E n \in SitemapUrls : ParseNested(n)
  \/ ParseReturns
  \/ DiscoveryReturns

SpecSitemap == InitSitemap /\ [][NextSitemap]_vars

\* the number of different reference paths that end at one document of an
\* acyclic set of documents is at most 2^(number of documents - 1)
FetchBound == 2 ^ (Cardinality(SitemapUrls) - 1)

\* C29: sitemap discovery ends by itself for every finite set of sitemap
\* documents, cyclic ones included: the nesting of _parse_sitemap calls stays
\* within the number of documents and each sitemap URL is fetched a bounded
\* number of times; every <url><loc> of a sitemap that was read is offered at
\* depth 1; and crawling starts only after discovery has returned.
C29_SitemapTerminates ==
  /\ Len(sm_stack) <= Cardinality(SitemapUrls)
  /\ \A u \in SitemapUrls : sm_fetches[u] <= FetchBound
  /\ \A o \in sm_offered : o.depth = 1
  /\ sm_phase = "crawl" =>
       /\ sm_stack = <<>> /\ sm_roots = <<>>
       /\ \A u \in SitemapUrls : sm_docs[u].ok =>
            \A x \in sm_docs[u].locs : [url |-> x, depth |-> 1] \in sm_offered

====
